---- MODULE Spec2Model ----
(***************************************************************************)
(* A model of the extraction core of chemdataextractor:                    *)
(*   - Sentence (doc/text.py): the lazily computed, cached properties, the *)
(*     abbreviation-aware tag correction (ner_tags) and the record merger  *)
(*     (records);                                                          *)
(*   - BaseModel (model/base.py): serialization and equality of records.   *)
(* Python lists are sequences; a list that is cached and later mutated     *)
(* in place is an object of the heap, so that two names for one list       *)
(* (aliasing) are visible.                                                 *)
(***************************************************************************)
EXTENDS Integers, Sequences, FiniteSets, TLC

(***************************************************************************)
(* Bounds of the model.                                                    *)
(***************************************************************************)
\* longest sentence, in tokens
MaxLen == 3
\* longest short form of an abbreviation definition, in tokens
MaxShort == 2
\* most abbreviation definitions in force for one sentence
MaxDefs == 1
\* most hits the parsers yield for one sentence
MaxHits == 3
\* most instances of a model class constructed
MaxInstances == 2
\* most operations (mutations, deletions) applied to the instances
MaxOps == 2
\* most items of a list given to a list field
MaxItems == 1
\* most characters of the text an entity hit covers
MaxText == 4
\* most Sentences constructed
MaxSentences == 2
\* most subclasses of BaseModel defined
MaxClasses == 2

VARIABLES
    sentence_tokens,   \* the token texts word_tokenizer.span_tokenize yields for the text
    ner_tagger_out,    \* the tag sequence ner_tagger.tag yields for the sentence
    abbrev_in,         \* the (abbr, long, ner_tag) triples in force for the sentence
    has_document,      \* whether self.document is set
    cache,             \* memoized property name -> object it returned, or NotComputed
    heap,              \* object -> its current contents, or Unallocated
    calls,             \* collaborator -> number of times it was invoked
    record,            \* Sentence.records: the hit the for loop handled last
    records,           \* Sentence.records: the ModelList of accepted records
    seen_labels,       \* Sentence.records: the set seen_labels
    n_hits,            \* number of hits the parsers have yielded so far
    accepted,          \* the accepted records as the for loop left them
    merge_calls,       \* the calls of merge_all made, in order, each as the pair (i, j)
    pc,                \* position in Sentence.records: "hits", "done", "raised", or "idle"
    objs,              \* the mutable objects (lists, _values dicts, models), by identity
    instances,         \* the models constructed, as references into objs
    n_ops,             \* number of operations applied to the instances
    last_op,           \* the operation applied last
    model,             \* a Model as its constructor left it
    out,               \* what the operation applied to the Model returned
    op,                \* the operation applied to the Model, or "new"
    cems_in,           \* Sentence.cems: the sentence, the four lists and the hit
    cems_out,          \* Sentence.cems: what the body of the loop computed for the hit
    cems_again,        \* the same for a hit that covers a Span of cems_out
    cems_pc,           \* "hit", "refined", "again", or "idle"
    detect_in,         \* abbreviation_definitions: the tokens, their raw tags and the spans detected
    abbreviations,     \* abbreviation_definitions: the list it returned, or None
    detect_pc,         \* "detect", "detected", "raised", or "idle"
    sents,             \* the Sentences constructed so far, each with its text, start and end
    sent_op,           \* how the last of them was made: "init", "sentences", "add", or "none"
    classes,           \* the Model classes defined so far, each with its fields and parsers attributes
    parser_model       \* parser object -> the class its model attribute names

varsSentence == <<sentence_tokens, ner_tagger_out, abbrev_in, has_document, cache, heap, calls>>

varsObjects == <<objs, instances, n_ops, last_op>>

varsRecords == <<record, records, seen_labels, n_hits, accepted, merge_calls, pc>>

varsModels == <<model, out, op>>

varsCems == <<cems_in, cems_out, cems_again, cems_pc>>

varsAbbrev == <<detect_in, abbreviations, detect_pc>>

varsOffsets == <<sents, sent_op>>

varsClasses == <<classes, parser_model>>

vars == <<varsSentence, varsRecords, varsObjects, varsModels, varsCems, varsAbbrev, varsOffsets, varsClasses>>

\* what an operation on one component leaves alone
notSentence == <<varsRecords, varsObjects, varsModels, varsCems, varsAbbrev, varsOffsets, varsClasses>>
notRecords == <<varsSentence, varsObjects, varsModels, varsCems, varsAbbrev, varsOffsets, varsClasses>>
notObjects == <<varsSentence, varsRecords, varsModels, varsCems, varsAbbrev, varsOffsets, varsClasses>>
notModels == <<varsSentence, varsRecords, varsObjects, varsCems, varsAbbrev, varsOffsets, varsClasses>>
notCems == <<varsSentence, varsRecords, varsObjects, varsModels, varsAbbrev, varsOffsets, varsClasses>>
notAbbrev == <<varsSentence, varsRecords, varsObjects, varsModels, varsCems, varsOffsets, varsClasses>>
notOffsets == <<varsSentence, varsRecords, varsObjects, varsModels, varsCems, varsAbbrev, varsClasses>>
notClasses == <<varsSentence, varsRecords, varsObjects, varsModels, varsCems, varsAbbrev, varsOffsets>>

(***************************************************************************)
(* Python values and list operations.                                      *)
(***************************************************************************)
None == "None"
NotComputed == "NotComputed"
Unallocated == "Unallocated"

Max(a, b) == IF a >= b THEN a ELSE b
Min(a, b) == IF a <= b THEN a ELSE b
Clamp(k, n) == Max(0, Min(k, n))

\* s[lo:hi], 0-based, for lo, hi >= 0
PySlice(s, lo, hi) ==
    LET l == Clamp(lo, Len(s))
        h == Clamp(hi, Len(s))
    IN  IF h <= l THEN <<>> ELSE SubSeq(s, l + 1, h)

\* s[lo:hi] = new
PySliceAssign(s, lo, hi, new) ==
    LET l == Clamp(lo, Len(s))
        h == Max(l, Clamp(hi, Len(s)))
    IN  SubSeq(s, 1, l) \o new \o SubSeq(s, h + 1, Len(s))

\* s[k] = v, for 0 <= k < len(s)
PySetItem(s, k, v) == SubSeq(s, 1, k) \o <<v>> \o SubSeq(s, k + 2, Len(s))

\* [x] * k
PyRepeat(x, k) == [j \in 1..Max(k, 0) |-> x]

\* s[k], 0-based
PyItem(s, k) == s[k + 1]

(***************************************************************************)
(* Tag correction: the body of Sentence.ner_tags.                          *)
(***************************************************************************)
BeginTag_AsInside(ner_tag) == IF ner_tag # None THEN "I-" \o ner_tag ELSE None

\* 'B-%s' % ner_tag if ner_tag is not None else None
BeginTag(ner_tag) == IF ner_tag # None THEN "B-" \o ner_tag ELSE None

\* 'I-%s' % ner_tag if ner_tag is not None else None
InsideTag(ner_tag) == IF ner_tag # None THEN "I-" \o ner_tag ELSE None

\* abbr == self.raw_tokens[i:i+len(abbr)]
AbbrMatchesAt(raw_tokens, i, abbr) == abbr = PySlice(raw_tokens, i, i + Len(abbr))

InsideTags_OneTooMany(abbr, ner_tag) == PyRepeat(InsideTag(ner_tag), Len(abbr))

\* [...] * (len(abbr) - 1)
InsideTags(abbr, ner_tag) == PyRepeat(InsideTag(ner_tag), Len(abbr) - 1)

\* the two assignments that tag the matched span
TagSpan(ner_tags, i, abbr, ner_tag) ==
    PySliceAssign(PySetItem(ner_tags, i, BeginTag(ner_tag)),
                  i + 1, i + Len(abbr), InsideTags(abbr, ner_tag))

\* if i > 1 and self.raw_tokens[i-1] == '(': ner_tags[i-1] = None
ClearOpeningBracket(ner_tags, raw_tokens, i) ==
    IF i > 1 /\ PyItem(raw_tokens, i - 1) = "("
    THEN PySetItem(ner_tags, i - 1, None)
    ELSE ner_tags

\* if i < len(self.raw_tokens) - 1 and self.raw_tokens[i+1] == ')': ner_tags[i+1] = None
ClearClosingBracket(ner_tags, raw_tokens, i) ==
    IF i < Len(raw_tokens) - 1 /\ PyItem(raw_tokens, i + 1) = ")"
    THEN PySetItem(ner_tags, i + 1, None)
    ELSE ner_tags

\* the body of the inner loop, for one start index and one definition
ApplyDefinition(ner_tags, raw_tokens, i, def) ==
    IF AbbrMatchesAt(raw_tokens, i, def.abbr)
    THEN ClearClosingBracket(
             ClearOpeningBracket(TagSpan(ner_tags, i, def.abbr, def.ner_tag), raw_tokens, i),
             raw_tokens, i)
    ELSE ner_tags

\* the definitions from the k-th on applied last to first
RECURSIVE ApplyDefinitionsFrom_Reversed(_, _, _, _, _)
ApplyDefinitionsFrom_Reversed(ner_tags, raw_tokens, i, abbrev_defs, k) ==
    IF k > Len(abbrev_defs)
    THEN ner_tags
    ELSE ApplyDefinition(
             ApplyDefinitionsFrom_Reversed(ner_tags, raw_tokens, i, abbrev_defs, k + 1),
             raw_tokens, i, abbrev_defs[k])

\* for abbr, long, ner_tag in abbrev_defs, from the k-th definition on
RECURSIVE ApplyDefinitionsFrom(_, _, _, _, _)
ApplyDefinitionsFrom(ner_tags, raw_tokens, i, abbrev_defs, k) ==
    IF k > Len(abbrev_defs)
    THEN ner_tags
    ELSE ApplyDefinitionsFrom(ApplyDefinition(ner_tags, raw_tokens, i, abbrev_defs[k]),
                              raw_tokens, i, abbrev_defs, k + 1)

\* for i in range(0, len(ner_tags)), from index i on; the range is fixed on entry
RECURSIVE CorrectFrom(_, _, _, _, _)
CorrectFrom(ner_tags, raw_tokens, abbrev_defs, i, n) ==
    IF i >= n
    THEN ner_tags
    ELSE CorrectFrom(ApplyDefinitionsFrom(ner_tags, raw_tokens, i, abbrev_defs, 1),
                     raw_tokens, abbrev_defs, i + 1, n)

\* the list ner_tags holds when the loops end
CorrectTags(ner_tags, raw_tokens, abbrev_defs) ==
    CorrectFrom(ner_tags, raw_tokens, abbrev_defs, 0, Len(ner_tags))

(***************************************************************************)
(* The Sentence's properties.  A getter takes the instance state           *)
(* st = [cache, heap, calls] and yields the state after the access and the *)
(* object returned.  Each property body builds one list object, named      *)
(* after the property; ner_tags builds none and returns the list of        *)
(* unprocessed_ner_tags.                                                   *)
(***************************************************************************)
MemoizedProperties_TokensPlain ==
    {"pos_tagged_tokens", "unprocessed_ner_tagged_tokens", "unprocessed_ner_tags",
     "abbreviation_definitions", "ner_tagged_tokens", "ner_tags", "cems", "definitions",
     "tags", "records"}

\* the properties decorated @memoized_property in class Sentence
MemoizedProperties ==
    {"tokens", "pos_tagged_tokens", "unprocessed_ner_tagged_tokens", "unprocessed_ner_tags",
     "abbreviation_definitions", "ner_tagged_tokens", "ner_tags", "cems", "definitions",
     "tags", "records"}

\* the properties of class Sentence that the model covers
Properties ==
    {"tokens", "raw_tokens", "pos_tagged_tokens", "pos_tags",
     "unprocessed_ner_tagged_tokens", "unprocessed_ner_tags", "abbreviation_definitions",
     "ner_tagged_tokens", "ner_tags", "cems", "definitions", "tags", "tagged_tokens",
     "records"}

\* the properties decorated @property in class Sentence
PlainProperties == Properties \ MemoizedProperties

\* the collaborators a Sentence calls out to
Collaborators ==
    {"word_tokenizer", "pos_tagger", "ner_tagger", "abbreviation_detector",
     "chemical_name", "specifier_definition", "parsers"}

\* the lists the property bodies build
Objects == Properties \ {"ner_tags"}

\* one invocation of a collaborator
Call(st, who) == [st EXCEPT !.calls[who] = @ + 1]

\* a property body returns a newly built list
New(st, obj, value) == [st |-> [st EXCEPT !.heap[obj] = value], ref |-> obj]

\* memoized_property, on a later access: the result kept in the instance
IsKept(st, name) == name \in MemoizedProperties /\ st.cache[name] # NotComputed

Kept(st, name) == [st |-> st, ref |-> st.cache[name]]

\* memoized_property, on the first access: the body's result r is kept in the
\* instance; a plain property keeps nothing
Keep(r, name) ==
    IF name \in MemoizedProperties
    THEN [st |-> [r.st EXCEPT !.cache[name] = r.ref], ref |-> r.ref]
    ELSE r

\* the part of speech the opaque POS tagger gives a token
PosTagOf(token) == "NN"

\* The bodies below take the results of the accesses they make as parameters
\* (t, r, n, ...: the state after the access and the object it returned), in
\* the order the code makes them.

tokens_body(st) ==
    New(Call(st, "word_tokenizer"), "tokens",
        [k \in DOMAIN sentence_tokens |-> [text |-> sentence_tokens[k]]])

Get_tokens(st) ==
    IF IsKept(st, "tokens") THEN Kept(st, "tokens") ELSE Keep(tokens_body(st), "tokens")

\* [token.text for token in self.tokens]
raw_tokens_from(t) ==
    New(t.st, "raw_tokens", [k \in DOMAIN t.st.heap[t.ref] |-> t.st.heap[t.ref][k].text])

raw_tokens_body(st) == raw_tokens_from(Get_tokens(st))

Get_raw_tokens(st) ==
    IF IsKept(st, "raw_tokens") THEN Kept(st, "raw_tokens") ELSE Keep(raw_tokens_body(st), "raw_tokens")

\* self.pos_tagger.tag(self.raw_tokens)
pos_tagged_tokens_from(r) ==
    New(Call(r.st, "pos_tagger"), "pos_tagged_tokens",
        [k \in DOMAIN r.st.heap[r.ref] |->
            <<r.st.heap[r.ref][k], PosTagOf(r.st.heap[r.ref][k])>>])

pos_tagged_tokens_body(st) == pos_tagged_tokens_from(Get_raw_tokens(st))

Get_pos_tagged_tokens(st) ==
    IF IsKept(st, "pos_tagged_tokens") THEN Kept(st, "pos_tagged_tokens") ELSE Keep(pos_tagged_tokens_body(st), "pos_tagged_tokens")

\* [tag for token, tag in self.pos_tagged_tokens]
pos_tags_from(p) ==
    New(p.st, "pos_tags", [k \in DOMAIN p.st.heap[p.ref] |-> p.st.heap[p.ref][k][2]])

pos_tags_body(st) == pos_tags_from(Get_pos_tagged_tokens(st))

Get_pos_tags(st) ==
    IF IsKept(st, "pos_tags") THEN Kept(st, "pos_tags") ELSE Keep(pos_tags_body(st), "pos_tags")

\* self.ner_tagger.tag(self.pos_tagged_tokens)
unprocessed_ner_tagged_tokens_from(p) ==
    New(Call(p.st, "ner_tagger"), "unprocessed_ner_tagged_tokens",
        [k \in DOMAIN p.st.heap[p.ref] |-> <<p.st.heap[p.ref][k], ner_tagger_out[k]>>])

unprocessed_ner_tagged_tokens_body(st) ==
    unprocessed_ner_tagged_tokens_from(Get_pos_tagged_tokens(st))

Get_unprocessed_ner_tagged_tokens(st) ==
    IF IsKept(st, "unprocessed_ner_tagged_tokens") THEN Kept(st, "unprocessed_ner_tagged_tokens") ELSE Keep(unprocessed_ner_tagged_tokens_body(st), "unprocessed_ner_tagged_tokens")

\* [tag for token, tag in self.unprocessed_ner_tagged_tokens]
unprocessed_ner_tags_from(u) ==
    New(u.st, "unprocessed_ner_tags",
        [k \in DOMAIN u.st.heap[u.ref] |-> u.st.heap[u.ref][k][2]])

unprocessed_ner_tags_body(st) ==
    unprocessed_ner_tags_from(Get_unprocessed_ner_tagged_tokens(st))

Get_unprocessed_ner_tags(st) ==
    IF IsKept(st, "unprocessed_ner_tags") THEN Kept(st, "unprocessed_ner_tags") ELSE Keep(unprocessed_ner_tags_body(st), "unprocessed_ner_tags")

\* the detector is opaque: the triples built from its spans are abbrev_in
abbreviation_definitions_from(r) ==
    New(Call(r.st, "abbreviation_detector"), "abbreviation_definitions", abbrev_in)

\* ners = self.unprocessed_ner_tags, then detect_spans(self.raw_tokens)
abbreviation_definitions_body(st) ==
    abbreviation_definitions_from(Get_raw_tokens(Get_unprocessed_ner_tags(st).st))

Get_abbreviation_definitions(st) ==
    IF IsKept(st, "abbreviation_definitions") THEN Kept(st, "abbreviation_definitions") ELSE Keep(abbreviation_definitions_body(st), "abbreviation_definitions")

\* self.abbreviation_definitions, as a value
own_abbrev_defs(a) == [st |-> a.st, value |-> a.st.heap[a.ref]]

\* self.document.abbreviation_definitions if self.document else self.abbreviation_definitions
abbrev_defs_of(st) ==
    IF has_document
    THEN [st |-> st, value |-> abbrev_in]
    ELSE own_abbrev_defs(Get_abbreviation_definitions(st))

\* the loops of ner_tags, run on the list n returned: the list is changed in
\* place and is the list returned
ner_tags_corrected(n, a, r) ==
    [st |-> [r.st EXCEPT !.heap[n.ref] =
                 CorrectTags(r.st.heap[n.ref], r.st.heap[r.ref], a.value)],
     ref |-> n.ref]

ner_tags_with(n, a) == ner_tags_corrected(n, a, Get_raw_tokens(a.st))

ner_tags_from(n) == ner_tags_with(n, abbrev_defs_of(n.st))

\* ner_tags = self.unprocessed_ner_tags: the cached list itself
ner_tags_body(st) == ner_tags_from(Get_unprocessed_ner_tags(st))

Get_ner_tags(st) ==
    IF IsKept(st, "ner_tags") THEN Kept(st, "ner_tags") ELSE Keep(ner_tags_body(st), "ner_tags")

\* list(zip(self.raw_tokens, self.ner_tags))
ner_tagged_tokens_zip(r, n) ==
    New(n.st, "ner_tagged_tokens",
        [k \in 1..Min(Len(n.st.heap[r.ref]), Len(n.st.heap[n.ref])) |->
            <<n.st.heap[r.ref][k], n.st.heap[n.ref][k]>>])

ner_tagged_tokens_from(r) == ner_tagged_tokens_zip(r, Get_ner_tags(r.st))

ner_tagged_tokens_body(st) == ner_tagged_tokens_from(Get_raw_tokens(st))

Get_ner_tagged_tokens(st) ==
    IF IsKept(st, "ner_tagged_tokens") THEN Kept(st, "ner_tagged_tokens") ELSE Keep(ner_tagged_tokens_body(st), "ner_tagged_tokens")

\* every ner tag that is not None replaces the POS tag at its index
tags_merged(p, n) ==
    New(n.st, "tags",
        [k \in DOMAIN n.st.heap[p.ref] |->
            IF k \in DOMAIN n.st.heap[n.ref] /\ n.st.heap[n.ref][k] # None
            THEN n.st.heap[n.ref][k]
            ELSE n.st.heap[p.ref][k]])

tags_from(p) == tags_merged(p, Get_ner_tags(p.st))

\* tags = self.pos_tags, a new list
tags_body(st) == tags_from(Get_pos_tags(st))

Get_tags(st) ==
    IF IsKept(st, "tags") THEN Kept(st, "tags") ELSE Keep(tags_body(st), "tags")

\* list(zip(self.raw_tokens, self.tags))
tagged_tokens_zip(r, t) ==
    New(t.st, "tagged_tokens",
        [k \in 1..Min(Len(t.st.heap[r.ref]), Len(t.st.heap[t.ref])) |->
            <<t.st.heap[r.ref][k], t.st.heap[t.ref][k]>>])

tagged_tokens_from(r) == tagged_tokens_zip(r, Get_tags(r.st))

tagged_tokens_body(st) == tagged_tokens_from(Get_raw_tokens(st))

Get_tagged_tokens(st) ==
    IF IsKept(st, "tagged_tokens") THEN Kept(st, "tagged_tokens") ELSE Keep(tagged_tokens_body(st), "tagged_tokens")

\* what an opaque grammar or parser yields when run over the tagged tokens
ScanOf(who, tagged_tokens) == [by |-> who, over |-> tagged_tokens]

\* the result of running collaborator who over self.tagged_tokens, as object obj
scan_from(t, who, obj) == New(Call(t.st, who), obj, ScanOf(who, t.st.heap[t.ref]))

cems_body(st) == scan_from(Get_tagged_tokens(st), "chemical_name", "cems")

Get_cems(st) ==
    IF IsKept(st, "cems") THEN Kept(st, "cems") ELSE Keep(cems_body(st), "cems")

definitions_body(st) ==
    scan_from(Get_tagged_tokens(st), "specifier_definition", "definitions")

Get_definitions(st) ==
    IF IsKept(st, "definitions") THEN Kept(st, "definitions") ELSE Keep(definitions_body(st), "definitions")

records_body(st) == scan_from(Get_tagged_tokens(st), "parsers", "records")

Get_records(st) ==
    IF IsKept(st, "records") THEN Kept(st, "records") ELSE Keep(records_body(st), "records")

\* attribute access sentence.<name>
Get(st, name) ==
    CASE name = "tokens" -> Get_tokens(st)
      [] name = "raw_tokens" -> Get_raw_tokens(st)
      [] name = "pos_tagged_tokens" -> Get_pos_tagged_tokens(st)
      [] name = "pos_tags" -> Get_pos_tags(st)
      [] name = "unprocessed_ner_tagged_tokens" -> Get_unprocessed_ner_tagged_tokens(st)
      [] name = "unprocessed_ner_tags" -> Get_unprocessed_ner_tags(st)
      [] name = "abbreviation_definitions" -> Get_abbreviation_definitions(st)
      [] name = "ner_tags" -> Get_ner_tags(st)
      [] name = "ner_tagged_tokens" -> Get_ner_tagged_tokens(st)
      [] name = "tags" -> Get_tags(st)
      [] name = "tagged_tokens" -> Get_tagged_tokens(st)
      [] name = "cems" -> Get_cems(st)
      [] name = "definitions" -> Get_definitions(st)
      [] name = "records" -> Get_records(st)

(***************************************************************************)
(* Records: instances of BaseModel.  A record is its class name and its    *)
(* _values; a dict is a function from its keys.                            *)
(***************************************************************************)
\* the value None of a field that holds a model
NoModel == [type |-> "NoneType"]

\* the order sorted() puts the strings of the model in (by code point)
StringOrder == <<"1", "2", "A", "B", "r">>

OrderOf(x) == CHOOSE k \in DOMAIN StringOrder : StringOrder[k] = x

\* set(s)
PySet(s) == {s[k] : k \in DOMAIN s}

\* sorted(list(S))
RECURSIVE PySorted(_)
PySorted(S) ==
    IF S = {}
    THEN <<>>
    ELSE LET m == CHOOSE x \in S : \A y \in S : OrderOf(x) <= OrderOf(y)
         IN  <<m>> \o PySorted(S \ {m})

\* Compound(names=..., labels=..., roles=...)
Compound(names, labels, roles) ==
    [type |-> "Compound", names |-> names, labels |-> labels, roles |-> roles]

\* SpeedModel(raw_value=..., compound=...)
SpeedModel(raw_value, compound) ==
    [type |-> "SpeedModel", raw_value |-> raw_value, compound |-> compound]

\* isinstance(r, Compound)
IsCompound(r) == r.type = "Compound"

\* hasattr(r, 'compound') and r.compound is not None
HasCompound(r) == r.type = "SpeedModel" /\ r.compound # NoModel

\* a == b, for two records: same class and equal _values
ModelEq(a, b) == a.type = b.type /\ a = b

\* r in rs, for a ModelList rs
InModelList(r, rs) == \E k \in DOMAIN rs : ModelEq(rs[k], r)

\* Compound.serialize(): the fields that are not empty, under the class name
SerializeCompound(r) ==
    [Compound |-> [f \in {g \in {"names", "labels", "roles"} : r[g] # <<>>} |-> r[f]]]

\* BaseModel.serialize(), for a SpeedModel: a field that is None or '' is skipped
SerializeSpeedModel(r) ==
    [f \in {g \in {"raw_value"} : r[g] \notin {None, ""}}
            \cup {g \in {"compound"} : r[g] # NoModel} |->
        IF f = "compound" THEN SerializeCompound(r.compound) ELSE r[f]]

\* a value that is no model and has no serialize(), such as a string
NotAModel == [type |-> "str"]

\* record.serialize() raises: ModelType.serialize calls value.serialize() on
\* whatever the field holds
SerializeRaises(r) == r.type = "SpeedModel" /\ r.compound.type \notin {"NoneType", "Compound"}

\* record.serialize()
Serialize(r) == IF IsCompound(r) THEN SerializeCompound(r) ELSE SerializeSpeedModel(r)

\* not p
IsEmptyDict(p) == DOMAIN p = {}

(***************************************************************************)
(* The record merger: the body of Sentence.records.                        *)
(***************************************************************************)
\* the test on the keys alone, whatever labels have been seen
JustSeenLabels_SeenOrNot(r, p, seen) ==
    /\ IsCompound(r)
    /\ \A k \in DOMAIN p.Compound : k \in {"labels", "roles"}

\* all(k in {'labels', 'roles'} for k in p['Compound'].keys())
\*     and set(record.labels).issubset(seen_labels)
JustSeenLabels(r, p, seen) ==
    /\ IsCompound(r)
    /\ \A k \in DOMAIN p.Compound : k \in {"labels", "roles"}
    /\ PySet(r.labels) \subseteq seen

SharesNameOrLabel_NamesOnly(r, seen_record) ==
    /\ IsCompound(seen_record)
    /\ PySet(r.names) \cap PySet(seen_record.names) # {}

\* the condition under which record r is united with seen_record
SharesNameOrLabel(r, seen_record) ==
    /\ IsCompound(seen_record)
    /\ \/ PySet(r.names) \cap PySet(seen_record.names) # {}
       \/ PySet(r.labels) \cap PySet(seen_record.labels) # {}

\* the three assignments that unite record r into seen_record
UnitedWith(seen_record, r) ==
    [seen_record EXCEPT
        !.names = PySorted(PySet(seen_record.names) \cup PySet(r.names)),
        !.labels = PySorted(PySet(seen_record.labels) \cup PySet(r.labels)),
        !.roles = PySorted(PySet(seen_record.roles) \cup PySet(r.roles))]

\* for seen_record in records: every record that shares with r is united with it
UniteAll(rs, r) ==
    [k \in DOMAIN rs |->
        IF SharesNameOrLabel(r, rs[k]) THEN UnitedWith(rs[k], r) ELSE rs[k]]

\* found, when the loop over the seen records ends
Found(rs, r) == \E k \in DOMAIN rs : SharesNameOrLabel(r, rs[k])

\* the continue statements without the test for a duplicate
Skipped_NoDuplicateTest(rs, seen, r) ==
    \/ IsEmptyDict(Serialize(r))
    \/ JustSeenLabels(r, Serialize(r), seen)

\* one of the three continue statements that skip the hit before it is looked at
Skipped(rs, seen, r) ==
    \/ IsEmptyDict(Serialize(r))
    \/ InModelList(r, rs)
    \/ JustSeenLabels(r, Serialize(r), seen)

\* records, after one turn of the for loop, on hit r
RecordsAfter(rs, seen, r) ==
    IF Skipped(rs, seen, r) THEN rs
    ELSE IF IsCompound(r)
         THEN IF Found(rs, r) THEN UniteAll(rs, r) ELSE Append(rs, r)
         ELSE Append(rs, r)

\* seen_labels fed by the anchor hits alone
SeenAfter_AnchorsOnly(rs, seen, r) ==
    IF Skipped(rs, seen, r) THEN seen
    ELSE IF IsCompound(r) THEN seen \cup PySet(r.labels)
    ELSE seen

\* seen_labels, after one turn of the for loop, on hit r
SeenAfter(rs, seen, r) ==
    IF Skipped(rs, seen, r) THEN seen
    ELSE IF IsCompound(r) THEN seen \cup PySet(r.labels)
    ELSE IF HasCompound(r) THEN seen \cup PySet(r.compound.labels)
    ELSE seen

\* self.merge_all(other): a record with no compound takes the Compound it is given
MergeAll(self, other) ==
    IF self.type = "SpeedModel" /\ self.compound = NoModel /\ IsCompound(other)
    THEN [self EXCEPT !.compound = other]
    ELSE self

MergeStep_SelfToo(st, i, j) ==
    [records |-> PySetItem(st.records, j, MergeAll(PyItem(st.records, j), PyItem(st.records, i))),
     calls |-> Append(st.calls, <<i, j>>)]

\* if i != j: records[j].merge_all(records[i]); st is the list and the calls
\* of merge_all made so far, each as the pair (i, j)
MergeStep(st, i, j) ==
    IF i # j
    THEN [records |-> PySetItem(st.records, j,
                                MergeAll(PyItem(st.records, j), PyItem(st.records, i))),
          calls |-> Append(st.calls, <<i, j>>)]
    ELSE st

\* the two while loops, from the pair (i, j) on; length is fixed on entry
RECURSIVE MergeFrom(_, _, _, _)
MergeFrom(st, i, j, length) ==
    IF i >= length THEN st
    ELSE IF j >= length THEN MergeFrom(st, i + 1, 0, length)
    ELSE MergeFrom(MergeStep(st, i, j), i, j + 1, length)

\* the two while loops, run on the list rs
MergeLoops(rs) == MergeFrom([records |-> rs, calls |-> <<>>], 0, 0, Len(rs))

\* records, when the two while loops end
MergePass(rs) == MergeLoops(rs).records

\* Sentence.records is not running
NoRecords ==
    /\ record = NoModel
    /\ records = <<>>
    /\ seen_labels = {}
    /\ n_hits = 0
    /\ accepted = <<>>
    /\ merge_calls = <<>>
    /\ pc = "idle"

\* records = ModelList(); seen_labels = set()
StartRecords ==
    /\ record = NoModel
    /\ records = <<>>
    /\ seen_labels = {}
    /\ n_hits = 0
    /\ accepted = <<>>
    /\ merge_calls = <<>>
    /\ pc = "hits"

\* one turn of the for loop: a parser yields hit r; an exception raised in the
\* turn is caught nowhere and ends Sentence.records
ProcessHit(r) ==
    /\ pc = "hits"
    /\ n_hits < MaxHits
    /\ record' = r
    /\ n_hits' = n_hits + 1
    /\ IF SerializeRaises(r)
       THEN /\ pc' = "raised"
            /\ UNCHANGED <<records, seen_labels>>
       ELSE /\ pc' = pc
            /\ records' = RecordsAfter(records, seen_labels, r)
            /\ seen_labels' = SeenAfter(records, seen_labels, r)
    /\ UNCHANGED <<accepted, merge_calls>>
    /\ UNCHANGED notRecords

\* the parsers are exhausted: the all-pairs merge pass, and return records
MergeRecords ==
    /\ pc = "hits"
    /\ accepted' = records
    /\ records' = MergePass(records)
    /\ merge_calls' = MergeLoops(records).calls
    /\ pc' = "done"
    /\ UNCHANGED <<record, seen_labels, n_hits>>
    /\ UNCHANGED notRecords

(***************************************************************************)
(* Models as objects: BaseModel.__init__, the field setters and            *)
(* __delattr__, on two classes built with the fields of base.py:           *)
(*     class Inner(BaseModel): items = ListType(StringType())              *)
(*     class Outer(BaseModel): items = ListType(StringType())              *)
(*                             inner = ModelType(Inner, default=Inner())   *)
(* objs holds the mutable objects; a value is a string, None or a          *)
(* reference to an object.                                                 *)
(***************************************************************************)
Str(x) == [str |-> x]
NoneV == [none |-> TRUE]
Ref(k) == [ref |-> k]
IsRef(v) == DOMAIN v = {"ref"}

\* a list object; a model object is [kind |-> "model", cls, values], its
\* _values a dict object [kind |-> "dict", items]
List(items) == [kind |-> "list", items |-> items]

\* a new object; the state is the heap and the last value produced
Alloc(h, obj) == [heap |-> Append(h, obj), val |-> Ref(Len(h) + 1)]

\* the objects that exist once the two classes are defined: the defaults the
\* fields hold (ListType: default if default is not None else [];
\* BaseType: copy.deepcopy(default))
ClassObjects ==
    <<List(<<>>),                        \* 1: Inner.items.default
      List(<<>>),                        \* 2: Outer.items.default
      List(<<>>),                        \* 3: the items list of Outer.inner.default
      [kind |-> "dict", items |-> [items |-> Ref(3)]],       \* 4: the _values of 5
      [kind |-> "model", cls |-> "Inner", values |-> Ref(4)]>>  \* 5: Outer.inner.default

\* cls.fields
FieldsOf(cls) == IF cls = "Outer" THEN {"items", "inner"} ELSE {"items"}

\* cls.fields[name].default
FieldDefault(cls, name) ==
    IF cls = "Inner" THEN Ref(1)
    ELSE IF name = "items" THEN Ref(2) ELSE Ref(5)

\* copy.copy(v): a new object with the same contents (the same references)
CopyCopy(h, v) ==
    IF IsRef(v) THEN Alloc(h, h[v.ref]) ELSE [heap |-> h, val |-> v]

\* instance._values[name] = v
SetValue(h, inst, name, v) == [h EXCEPT ![h[inst.ref].values.ref].items[name] = v]

\* setattr(instance, name, value). items is a ListType: ListType.__set__ stores
\* None, or a new list of the processed items; inner is a ModelType:
\* BaseType.__set__ stores process(value), the value itself
SetAttr(h, inst, name, value) ==
    IF name = "items" /\ value # NoneV
    THEN LET a == Alloc(h, List(h[value.ref].items))
         IN  SetValue(a.heap, inst, name, a.val)
    ELSE SetValue(h, inst, name, value)

\* setattr(self, key, copy.copy(field.default))
SetDefault(h, inst, name) ==
    LET c == CopyCopy(h, FieldDefault(h[inst.ref].cls, name))
    IN  SetAttr(c.heap, inst, name, c.val)

\* Outer(**raw_data): raw_data holds items (a list the caller built) or nothing
NewOuter(h, raw_items) ==
    LET d == Alloc(h, [kind |-> "dict", items |-> [items |-> NoneV, inner |-> NoneV]])
        m == Alloc(d.heap, [kind |-> "model", cls |-> "Outer", values |-> d.val])
        g == Alloc(m.heap, List(raw_items))
        h1 == IF raw_items # <<>>
              THEN SetAttr(g.heap, m.val, "items", g.val)
              ELSE SetDefault(m.heap, m.val, "items")
    IN  [heap |-> SetDefault(h1, m.val, "inner"), val |-> m.val]

\* BaseModel.__delattr__: setattr(self, attr, self.fields[attr].default)
DelAttrOf(h, inst, name) == SetAttr(h, inst, name, FieldDefault(h[inst.ref].cls, name))

\* getattr(instance, name)
GetAttr(h, inst, name) == h[h[inst.ref].values.ref].items[name]

\* lst.append(x)
ListAppend(h, lst, x) == [h EXCEPT ![lst.ref].items = Append(@, x)]

\* no model has been constructed
NoObjects ==
    /\ objs = <<>>
    /\ instances = <<>>
    /\ n_ops = 0
    /\ last_op = "none"

\* the two classes have been defined
ClassesDefined ==
    /\ objs = ClassObjects
    /\ instances = <<>>
    /\ n_ops = 0
    /\ last_op = "none"

\* m = Outer() or m = Outer(items=['n'])
Construct(raw_items) ==
    /\ Len(instances) < MaxInstances
    /\ LET r == NewOuter(objs, raw_items)
       IN  /\ objs' = r.heap
           /\ instances' = Append(instances, r.val)
    /\ last_op' = "construct"
    /\ UNCHANGED n_ops
    /\ UNCHANGED notObjects

\* del m.<name>
DelAttr(k, name) ==
    /\ n_ops < MaxOps
    /\ objs' = DelAttrOf(objs, instances[k], name)
    /\ n_ops' = n_ops + 1
    /\ last_op' = "delete"
    /\ UNCHANGED instances
    /\ UNCHANGED notObjects

\* the value of a field of an instance mutated in place:
\* m.items.append('x'), m.inner.items = ['x'] or m.inner.items.append('x')
Mutate(k, how) ==
    /\ n_ops < MaxOps
    /\ LET m == instances[k]
           inner == GetAttr(objs, m, "inner")
           g == Alloc(objs, List(<<Str("x")>>))
       IN  CASE how = "items.append" ->
                  objs' = ListAppend(objs, GetAttr(objs, m, "items"), Str("x"))
             [] how = "inner.items =" ->
                  objs' = SetAttr(g.heap, inner, "items", g.val)
             [] how = "inner.items.append" ->
                  objs' = ListAppend(objs, GetAttr(objs, inner, "items"), Str("x"))
    /\ n_ops' = n_ops + 1
    /\ last_op' = "mutate"
    /\ UNCHANGED instances
    /\ UNCHANGED notObjects

(***************************************************************************)
(* Models as values: the constructor, serialize and is_contextual of       *)
(* BaseModel, on two classes built with the fields of base.py:             *)
(*     class Leaf(BaseModel): name = StringType()                          *)
(*                            kind = StringType(contextual=True)           *)
(*     class Tree(BaseModel): label = StringType(null=True, contextual=True)*)
(*                            tags = ListType(StringType(contextual=True)) *)
(*                            leaf = ModelType(Leaf, contextual=True)      *)
(*                            leaves = ListType(ModelType(Leaf))           *)
(* A value is None, a string Str(s), an integer IntV(n), a list ListV(seq), *)
(* a dict DictV(f) or a Model [cls, values].                               *)
(***************************************************************************)
IntV(n) == [int |-> n]
ListV(seq) == [list |-> seq]
DictV(f) == [dict |-> f]
\* a keyword the constructor was not given
Absent == [absent |-> TRUE]

StringType(null, contextual) == [type |-> "StringType", null |-> null, contextual |-> contextual]
ModelType(model_class, null, contextual) ==
    [type |-> "ModelType", model_class |-> model_class, null |-> null, contextual |-> contextual]
ListType(field, null, contextual) ==
    [type |-> "ListType", field |-> field, null |-> null, contextual |-> contextual]

\* cls.fields
fields(cls) ==
    IF cls = "Leaf"
    THEN [name |-> StringType(FALSE, FALSE),
          kind |-> StringType(FALSE, TRUE)]
    ELSE [label |-> StringType(TRUE, TRUE),
          tags |-> ListType(StringType(FALSE, TRUE), FALSE, FALSE),
          leaf |-> ModelType("Leaf", FALSE, TRUE),
          leaves |-> ListType(ModelType("Leaf", FALSE, FALSE), FALSE, FALSE)]

\* field.default
default(field) == IF field.type = "ListType" THEN ListV(<<>>) ELSE NoneV

\* six.text_type(value)
text_type(value) == IF DOMAIN value = {"int"} THEN Str(ToString(value.int)) ELSE value

\* field.process(value)
process(field, value) ==
    IF field.type = "StringType" /\ value # NoneV THEN text_type(value) ELSE value

\* what field.__set__(instance, value) stores
stored(field, value) ==
    IF field.type = "ListType" /\ value # NoneV
    THEN ListV([k \in DOMAIN value.list |-> process(field.field, value.list[k])])
    ELSE process(field, value)

\* cls(**raw_data), raw_data[key] being Absent for a key not in raw_data
NewModel(cls, raw_data) ==
    [cls |-> cls,
     values |-> [key \in DOMAIN fields(cls) |->
                    IF raw_data[key] # Absent
                    THEN stored(fields(cls)[key], raw_data[key])
                    ELSE stored(fields(cls)[key], default(fields(cls)[key]))]]

\* hasattr(value, 'serialize')
IsModel(value) == "cls" \in DOMAIN value

\* value in [None, '', []]
IsEmptyValue(value) == value \in {NoneV, Str(""), ListV(<<>>)}

RECURSIVE serialize(_)
RECURSIVE field_serialize(_, _)
\* field.serialize(value): ListType.serialize, ModelType.serialize, BaseType.serialize
field_serialize(field, value) ==
    CASE field.type = "ListType" ->
           ListV([k \in DOMAIN value.list |-> field_serialize(field.field, value.list[k])])
      [] field.type = "ModelType" -> serialize(value)
      [] OTHER -> IF IsModel(value) THEN serialize(value) ELSE value

\* self.serialize()
serialize(self) ==
    LET value(field_name) ==
            IF self.values[field_name] # NoneV
            THEN field_serialize(fields(self.cls)[field_name], self.values[field_name])
            ELSE NoneV
        kept == {field_name \in DOMAIN self.values :
                    ~(~fields(self.cls)[field_name].null /\ IsEmptyValue(value(field_name)))}
    IN  DictV([field_name \in kept |-> value(field_name)])

\* self.__eq__(other)
ModelEquals(self, other) ==
    IF IsModel(other) /\ other.cls = self.cls THEN self.values = other.values ELSE FALSE

RECURSIVE is_contextual(_)
is_contextual_ListByOwnFlag(self) ==
    \A k \in DOMAIN self.values :
        LET value == self.values[k]
            field == fields(self.cls)[k]
        IN  IsEmptyValue(value) \/
            IF field.type = "ModelType" THEN is_contextual(value) ELSE field.contextual

\* self.is_contextual
is_contextual(self) ==
    \A k \in DOMAIN self.values :
        LET value == self.values[k]
            field == fields(self.cls)[k]
        IN  IsEmptyValue(value) \/
            IF field.type = "ListType"
            THEN IF field.field.type = "ModelType"
                 THEN \A i \in DOMAIN value.list : is_contextual(value.list[i])
                 ELSE field.field.contextual
            ELSE IF field.type = "ModelType"
                 THEN is_contextual(value)
                 ELSE field.contextual

\* no Model is under test
NoModels ==
    /\ model = NoneV
    /\ out = NoneV
    /\ op = "idle"

\* m = cls(**raw_data)
ModelConstructed(cls, raw_data) ==
    /\ model = NewModel(cls, raw_data)
    /\ out = NoneV
    /\ op = "new"

\* m.serialize()
CallSerialize ==
    /\ op = "new"
    /\ out' = serialize(model)
    /\ op' = "serialize"
    /\ UNCHANGED model
    /\ UNCHANGED notModels

\* type(m)(**m.serialize())
Reconstruct ==
    /\ op = "new"
    /\ LET data == serialize(model).dict
       IN  out' = NewModel(model.cls, [key \in DOMAIN fields(model.cls) |->
                                          IF key \in DOMAIN data THEN data[key] ELSE Absent])
    /\ op' = "reconstruct"
    /\ UNCHANGED model
    /\ UNCHANGED notModels

\* m.is_contextual
GetIsContextual ==
    /\ op = "new"
    /\ out' = is_contextual(model)
    /\ op' = "is_contextual"
    /\ UNCHANGED model
    /\ UNCHANGED notModels

(***************************************************************************)
(* Sentence.cems: the body of the loop over the hits of chemical_name.     *)
(* A text is a sequence of characters; a pattern of SPLITS is an anchored  *)
(* sequence of character classes (<<"upper", "lower">> is ^[A-Z][a-z]$), a *)
(* pattern of SPECIALS an anchored sequence of groups, each such a         *)
(* sequence (<<<<"upper">>, <<"lower">>>> is ^([A-Z])([a-z])$).            *)
(***************************************************************************)
Span(text, start, end) == [text |-> text, start |-> start, end |-> end]

\* the least index of a non-empty set of indices
First(S) == CHOOSE k \in S : \A j \in S : k <= j

\* text.lower()
lower(text) == [k \in DOMAIN text |-> IF text[k] = "A" THEN "a" ELSE text[k]]

\* text.startswith(prefix), text.endswith(suffix)
startswith(text, prefix) ==
    Len(prefix) <= Len(text) /\ SubSeq(text, 1, Len(prefix)) = prefix
endswith(text, suffix) ==
    Len(suffix) <= Len(text) /\ SubSeq(text, Len(text) - Len(suffix) + 1, Len(text)) = suffix

Trim_SuffixAfterPrefix(currenttext, start, end, prefixes, suffixes) ==
    LET p == {k \in DOMAIN prefixes : startswith(currenttext, prefixes[k])}
        n == IF p = {} THEN 0 ELSE Len(prefixes[First(p)])
        rest == SubSeq(currenttext, n + 1, Len(currenttext))
        q == {k \in DOMAIN suffixes : endswith(rest, suffixes[k])}
    IN  [start |-> start + n,
         end |-> IF q = {} THEN end ELSE end - Len(suffixes[First(q)])]

\* for prefix in IGNORE_PREFIX: ... start += len(prefix); break
\* for suffix in IGNORE_SUFFIX: ... end -= len(suffix); break
Trim(currenttext, start, end, prefixes, suffixes) ==
    LET p == {k \in DOMAIN prefixes : startswith(currenttext, prefixes[k])}
        q == {k \in DOMAIN suffixes : endswith(currenttext, suffixes[k])}
    IN  [start |-> IF p = {} THEN start ELSE start + Len(prefixes[First(p)]),
         end |-> IF q = {} THEN end ELSE end - Len(suffixes[First(q)])]

\* level after the first k characters of currenttext[1:]
RECURSIVE LevelAfter(_, _, _)
LevelAfter(currenttext, bpair, k) ==
    IF k = 0 THEN 1
    ELSE LET char == currenttext[k + 1]
             level == LevelAfter(currenttext, bpair, k - 1)
         IN  IF char = bpair[1] THEN level + 1
             ELSE IF char = bpair[2] THEN level - 1 ELSE level

\* whether the loop over currenttext[1:] reaches start += 1; end -= 1: the test
\* level == 0 and k == len(currenttext) - 2 is made for the last character only
StripsLast(currenttext, bpair) ==
    /\ Len(currenttext) > 2
    /\ currenttext[1] = bpair[1]
    /\ currenttext[Len(currenttext)] = bpair[2]
    /\ LevelAfter(currenttext, bpair, Len(currenttext) - 1) = 0

\* for bpair in [('(', ')'), ('[', ']')]: ..., currenttext being the same for both
Debracket(currenttext, start, end) ==
    LET n == Cardinality({bpair \in {<<"(", ")">>, <<"[", "]">>} : StripsLast(currenttext, bpair)})
    IN  [start |-> start + n, end |-> end - n]

\* '(-|\+|\)?-to-\(?|...|/|\s)' on the characters of the texts
IsSeparator(char) == char = "-"

\* regex_span_tokenize(s, regex): the (left, right) pairs, 0-based, of the
\* pieces between the separators; a piece that would end at 0 is left out
RECURSIVE regex_span_tokenize(_, _, _)
regex_span_tokenize(s, left, k) ==
    IF k = Len(s) THEN <<<<left, Len(s)>>>>
    ELSE IF IsSeparator(s[k + 1])
         THEN (IF k # 0 THEN <<<<left, k>>>> ELSE <<>>) \o regex_span_tokenize(s, k + 1, k + 1)
         ELSE regex_span_tokenize(s, left, k + 1)

\* whether a character is of a class of a pattern
InClass(char, class) ==
    \/ class = "upper" /\ char = "A"
    \/ class = "lower" /\ char \in {"a", "b"}

\* re.search(split, text), the pattern anchored at both ends
re_search(pattern, text) ==
    Len(text) = Len(pattern) /\ \A k \in DOMAIN text : InClass(text[k], pattern[k])

SplitOne(currenttext, start, end, splits) == <<Span(currenttext, start, end)>>

\* the split step: split_spans
Split(currenttext, start, end, splits) ==
    LET comps == regex_span_tokenize(currenttext, 0, 0)
        piece(comp) == PySlice(currenttext, comp[1], comp[2])
        fires == {k \in DOMAIN splits :
                     \A c \in DOMAIN comps : re_search(splits[k], piece(comps[c]))}
    IN  IF Len(comps) > 1 /\ fires # {}
        THEN [c \in DOMAIN comps |->
                 Span(piece(comps[c]), start + comps[c][1], start + comps[c][2])]
        ELSE <<Span(currenttext, start, end)>>

\* the (m.start(i), m.end(i)) of the groups i.. of a match m of a pattern of
\* SPECIALS, group i starting at offset at
RECURSIVE GroupsFrom(_, _, _)
GroupsFrom(special, i, at) ==
    IF i > Len(special) THEN <<>>
    ELSE <<<<at, at + Len(special[i])>>>> \o GroupsFrom(special, i + 1, at + Len(special[i]))

\* the sequences of a sequence, one after the other
RECURSIVE Flat(_)
Flat(seqs) == IF seqs = <<>> THEN <<>> ELSE Head(seqs) \o Flat(Tail(seqs))

Special_LastMatch(split_span, specials) ==
    LET hits == {k \in DOMAIN specials : re_search(Flat(specials[k]), split_span.text)}
        last == CHOOSE k \in hits : \A j \in hits : j <= k
        groups == GroupsFrom(specials[last], 1, 0)
    IN  IF hits = {} THEN <<split_span>>
        ELSE [i \in DOMAIN groups |->
                 Span(PySlice(split_span.text, groups[i][1], groups[i][2]),
                      split_span.start + groups[i][1], split_span.start + groups[i][2])]

Special_OffsetsInText(split_span, specials) ==
    LET hits == {k \in DOMAIN specials : re_search(Flat(specials[k]), split_span.text)}
        groups == GroupsFrom(specials[First(hits)], 1, 0)
    IN  IF hits = {} THEN <<split_span>>
        ELSE [i \in DOMAIN groups |->
                 Span(PySlice(split_span.text, groups[i][1], groups[i][2]),
                      groups[i][1], groups[i][2])]

\* the special-case step for one split_span: the Spans appended to spans
Special(split_span, specials) ==
    LET hits == {k \in DOMAIN specials : re_search(Flat(specials[k]), split_span.text)}
        groups == GroupsFrom(specials[First(hits)], 1, 0)
    IN  IF hits = {} THEN <<split_span>>
        ELSE [i \in DOMAIN groups |->
                 Span(PySlice(split_span.text, groups[i][1], groups[i][2]),
                      split_span.start + groups[i][1], split_span.start + groups[i][2])]

Refine_NoGuard(self, start, end) ==
    LET covered(range) == PySlice(self.text, range.start - self.start, range.end - self.start)
        hit == [start |-> start, end |-> end]
        trimmed == Trim(lower(covered(hit)), start, end, self.prefixes, self.suffixes)
        debracketed == Debracket(covered(trimmed), trimmed.start, trimmed.end)
        split_spans == Split(covered(debracketed), debracketed.start, debracketed.end,
                             self.splits)
    IN  [hit |-> hit, trimmed |-> trimmed, debracketed |-> debracketed, skipped |-> FALSE,
         split_spans |-> split_spans,
         spans |-> Flat([k \in DOMAIN split_spans |-> Special(split_spans[k], self.specials)])]

\* the body of the loop for a hit whose tokens cover start..end of the text of
\* self: what each step computes, and the Spans appended
Refine(self, start, end) ==
    LET covered(range) == PySlice(self.text, range.start - self.start, range.end - self.start)
        hit == [start |-> start, end |-> end]
        trimmed == Trim(lower(covered(hit)), start, end, self.prefixes, self.suffixes)
        debracketed == Debracket(covered(trimmed), trimmed.start, trimmed.end)
        skipped == debracketed.start >= debracketed.end
        split_spans == IF skipped THEN <<>>
                       ELSE Split(covered(debracketed), debracketed.start, debracketed.end,
                                  self.splits)
    IN  [hit |-> hit, trimmed |-> trimmed, debracketed |-> debracketed, skipped |-> skipped,
         split_spans |-> split_spans,
         spans |-> Flat([k \in DOMAIN split_spans |-> Special(split_spans[k], self.specials)])]

\* cems is not running
NoCems ==
    /\ cems_in = NoneV
    /\ cems_out = NoneV
    /\ cems_again = NoneV
    /\ cems_pc = "idle"

\* chemical_name.scan has yielded a hit on the tokens of the sentence
Scanned(self) ==
    /\ cems_in = self
    /\ cems_out = NoneV
    /\ cems_again = NoneV
    /\ cems_pc = "hit"

\* the body of the loop, for the hit
RefineHit ==
    /\ cems_pc = "hit"
    /\ cems_out' = Refine(cems_in, cems_in.start, cems_in.start + Len(cems_in.text))
    /\ cems_pc' = "refined"
    /\ UNCHANGED <<cems_in, cems_again>>
    /\ UNCHANGED notCems

\* the body of the loop, for a hit that covers the k-th Span emitted
RefineAgain(k) ==
    /\ cems_pc = "refined"
    /\ cems_again' = Refine(cems_in, cems_out.spans[k].start, cems_out.spans[k].end)
    /\ cems_pc' = "again"
    /\ UNCHANGED <<cems_in, cems_out>>
    /\ UNCHANGED notCems

\* the body of the loop, for a next hit, which covers the last character of
\* the sentence
RefineLast ==
    /\ cems_pc = "refined"
    /\ cems_again' = Refine(cems_in, cems_in.start + Len(cems_in.text) - 1,
                            cems_in.start + Len(cems_in.text))
    /\ cems_pc' = "next"
    /\ UNCHANGED <<cems_in, cems_out>>
    /\ UNCHANGED notCems

(***************************************************************************)
(* Sentence.abbreviation_definitions: the entity tag of a definition.      *)
(***************************************************************************)
\* the outcome of an IndexError
Raised == "Raised"

\* the entity types the NER tagger knows
EntityTypes == {"C", "D"}

\* tag[2:] for a raw tag "B-type" or "I-type"
TagType(tag) == CHOOSE type \in EntityTypes : tag \in {"B-" \o type, "I-" \o type}

\* set([tag[2:] for tag in long_tags if tag is not None])
unique_tags(long_tags) ==
    {TagType(long_tags[k]) : k \in {j \in DOMAIN long_tags : long_tags[j] # None}}

\* the type of the first tag whether or not the others agree with it
entity_tag_FirstOnly(long_tags) ==
    IF long_tags = <<>> THEN Raised
    ELSE IF long_tags[1] = None THEN None ELSE TagType(long_tags[1])

\* long_tags[0][2:] if None not in long_tags and len(unique_tags) == 1 else None
entity_tag(long_tags) ==
    IF (\A k \in DOMAIN long_tags : long_tags[k] # None)
       /\ Cardinality(unique_tags(long_tags)) = 1
    THEN IF long_tags = <<>> THEN Raised ELSE TagType(PyItem(long_tags, 0))
    ELSE None

\* the triple appended for one (abbr_span, long_span) of the detector
Definition(raw_tokens, ners, spans) ==
    LET abbr_span == spans[1]
        long_span == spans[2]
    IN  [abbr |-> PySlice(raw_tokens, abbr_span[1], abbr_span[2]),
         long |-> PySlice(raw_tokens, long_span[1], long_span[2]),
         ner_tag |-> entity_tag(PySlice(ners, long_span[1], long_span[2]))]

\* the list abbreviations, a triple with the tag Raised where the IndexError
\* would leave the property
abbreviation_definitions(self) ==
    IF ~self.abbreviation_detector THEN <<>>
    ELSE [k \in DOMAIN self.detect_spans |->
             Definition(self.raw_tokens, self.ners, self.detect_spans[k])]

NoAbbrev ==
    /\ detect_in = NoneV
    /\ abbreviations = NoneV
    /\ detect_pc = "idle"

\* self.abbreviation_definitions is read
DetectAbbreviations ==
    /\ detect_pc = "detect"
    /\ LET returned == abbreviation_definitions(detect_in)
       IN  IF \E k \in DOMAIN returned : returned[k].ner_tag = Raised
           THEN abbreviations' = NoneV /\ detect_pc' = "raised"
           ELSE abbreviations' = returned /\ detect_pc' = "detected"
    /\ UNCHANGED detect_in
    /\ UNCHANGED notAbbrev

(***************************************************************************)
(* Sentence offsets: Sentence.__init__, Sentence.__add__, Text.sentences.  *)
(***************************************************************************)
\* Sentence(text, start, end): self.end = end if end is not None else len(text)
Sentence(text, start, end) ==
    [text |-> text, start |-> start, end |-> IF end # NoneV THEN end.int ELSE Len(text)]

\* self + other, for two Sentences
Sentence_add(self, other) == Sentence(self.text \o other.text, self.start, NoneV)

\* Text.sentences: one Sentence for each span of the sentence tokenizer
Text_sentences(text, spans) ==
    [k \in DOMAIN spans |->
        Sentence(PySlice(text, spans[k][1], spans[k][2]), spans[k][1], IntV(spans[k][2]))]

NoOffsets ==
    /\ sents = <<>>
    /\ sent_op = "none"

\* Sentence(text, start) or Sentence(text, start, end)
SentenceInit(text, start, end) ==
    /\ Len(sents) < MaxSentences
    /\ sents' = Append(sents, Sentence(text, start, end))
    /\ sent_op' = "init"
    /\ UNCHANGED notOffsets

\* the sentences of a passage are read
TextSentences(text, spans) ==
    /\ Len(sents) + Len(spans) <= MaxSentences
    /\ spans # <<>>
    /\ sents' = sents \o Text_sentences(text, spans)
    /\ sent_op' = "sentences"
    /\ UNCHANGED notOffsets

\* sents[i] + sents[j]
SentenceAdd(i, j) ==
    /\ Len(sents) < MaxSentences
    /\ Len(sents[i].text) + Len(sents[j].text) <= MaxText
    /\ sents' = Append(sents, Sentence_add(sents[i], sents[j]))
    /\ sent_op' = "add"
    /\ UNCHANGED notOffsets

(***************************************************************************)
(* Model classes: ModelMeta.__new__.  A class is a number, BaseModel is 0; *)
(* a field object is named by the class whose body declared it, a parser   *)
(* object by a number.                                                     *)
(***************************************************************************)
\* class BaseModel: fields = {}; parsers = []
BaseModel == 0

\* a.copy(); a.update(b), for two dicts
CopyUpdate(a, b) ==
    [k \in DOMAIN a \cup DOMAIN b |-> IF k \in DOMAIN b THEN b[k] ELSE a[k]]

\* the attribute `parsers` of the class made from attrs: the list of its own
\* body if it has one, else the list object of its base
ParsersOf(clss, base, attrs) ==
    IF attrs.declares_parsers THEN attrs.parsers ELSE clss[base].parsers

\* the class ModelMeta.__new__ returns for `class name(base): attrs`
ModelMeta_new(clss, name, base, attrs) ==
    [base |-> base,
     own_fields |-> attrs.fields,
     declares_parsers |-> attrs.declares_parsers,
     fields |-> CopyUpdate(clss[base].fields, [k \in attrs.fields |-> name]),
     parsers |-> ParsersOf(clss, base, attrs)]

\* for parser in cls.parsers: parser.model = cls
BindParsers(bound, name, parsers) ==
    [p \in DOMAIN bound \cup PySet(parsers) |->
        IF p \in PySet(parsers) THEN name ELSE bound[p]]

NoClasses ==
    /\ classes = <<>>
    /\ parser_model = <<>>

\* base.py has been imported: BaseModel exists
BaseModelDefined ==
    /\ classes = (BaseModel :> [base |-> BaseModel, own_fields |-> {}, declares_parsers |-> TRUE,
                                fields |-> <<>>, parsers |-> <<>>])
    /\ parser_model = <<>>

\* a class statement: class name(base) with the fields and, maybe, the parsers
\* list of attrs
DefineClass(base, attrs) ==
    LET name == Cardinality(DOMAIN classes)
    IN  /\ name <= MaxClasses
        /\ classes' = classes @@ (name :> ModelMeta_new(classes, name, base, attrs))
        /\ parser_model' = BindParsers(parser_model, name, ParsersOf(classes, base, attrs))
        /\ UNCHANGED notClasses

(***************************************************************************)
(* Sentences: what the collaborators yield for them.                       *)
(***************************************************************************)
SeqsUpTo(S, n) == UNION {[1..k -> S] : k \in 0..n}

TokenTexts == {"(", ")", "a"}
\* what the NER tagger may give a token
RawTags == {None, "B-R"}
\* the taggings of a sentence of n tokens: the tagger tags every token, or none
RawTaggings(n) == {[k \in 1..n |-> t] : t \in RawTags}
\* the entity type of a definition: None, or the type of its long form
DefinitionTags == {None, "C"}

\* the short forms tried on a sentence: every run of at most MaxShort of its
\* tokens (the empty run too) and one that occurs nowhere
ShortForms(toks) ==
    {PySlice(toks, i, j) : i \in 0..Len(toks), j \in 0..Len(toks)} \cup {<<"zz">>}

Definitions(toks) ==
    {[abbr |-> sh, long |-> <<"long">>, ner_tag |-> t] :
        sh \in {x \in ShortForms(toks) : Len(x) <= MaxShort}, t \in DefinitionTags}

\* the sentence of the documented example, "( H 2 O 2 )", under either raw tagging
ExampleTokens == <<"(", "H", "2", "O", "2", ")">>
ExampleDefinition ==
    [abbr |-> <<"H", "2", "O", "2">>, long |-> <<"hydrogen", "peroxide">>, ner_tag |-> "compound"]
ExampleSentences ==
    {[tokens |-> ExampleTokens, raw |-> [k \in 1..6 |-> t], defs |-> <<ExampleDefinition>>] :
        t \in RawTags}

NewSentence(toks, raw, defs, doc) ==
    /\ sentence_tokens = toks
    /\ ner_tagger_out = raw
    /\ abbrev_in = defs
    /\ has_document = doc
    /\ cache = [name \in MemoizedProperties |-> NotComputed]
    /\ heap = [obj \in Objects |-> Unallocated]
    /\ calls = [who \in Collaborators |-> 0]

\* the instance state the getters work on
Self == [cache |-> cache, heap |-> heap, calls |-> calls]

\* one attribute access, sentence.<name>
Access(name) ==
    LET r == Get(Self, name)
    IN  /\ cache' = r.st.cache
        /\ heap' = r.st.heap
        /\ calls' = r.st.calls
        /\ UNCHANGED <<sentence_tokens, ner_tagger_out, abbrev_in, has_document>>
        /\ UNCHANGED notSentence

(***************************************************************************)
(* SpecTags: tag correction, over every bounded sentence and definition    *)
(* list, the definitions being those of the document.                      *)
(***************************************************************************)
TagProperties == {"unprocessed_ner_tags", "ner_tags"}

InitTags ==
    \/ \E n \in 0..MaxLen :
           \E toks \in [1..n -> TokenTexts], raw \in RawTaggings(n) :
              \E defs \in SeqsUpTo(Definitions(toks), MaxDefs) :
               NewSentence(toks, raw, defs, TRUE) /\ NoRecords /\ NoObjects /\ NoModels /\ NoCems /\ NoAbbrev /\ NoOffsets /\ NoClasses
    \/ \E s \in ExampleSentences : NewSentence(s.tokens, s.raw, s.defs, TRUE) /\ NoRecords /\ NoObjects /\ NoModels /\ NoCems /\ NoAbbrev /\ NoOffsets /\ NoClasses

NextTags == \E name \in TagProperties : Access(name)

SpecTags == InitTags /\ [][NextTags]_vars

(***************************************************************************)
(* SpecCache: every property of one Sentence, accessed in any order and    *)
(* any number of times, with and without a document.                       *)
(***************************************************************************)
InitCache ==
    \E s \in ExampleSentences, doc \in BOOLEAN :
        NewSentence(s.tokens, s.raw, s.defs, doc) /\ NoRecords /\ NoObjects /\ NoModels /\ NoCems /\ NoAbbrev /\ NoOffsets /\ NoClasses

NextCache == \E name \in Properties : Access(name)

SpecCache == InitCache /\ [][NextCache]_vars

(***************************************************************************)
(* SpecRecords: the record merger, over every bounded sequence of hits.    *)
(***************************************************************************)
\* the lists a parser may give a Compound
NameLists == {<<>>, <<"A">>, <<"B">>, <<"A", "B">>}
LabelLists == {<<>>, <<"1">>, <<"2">>}
RoleLists == {<<>>, <<"r">>}

CompoundHits ==
    {Compound(n, l, r) : n \in NameLists, l \in LabelLists, r \in RoleLists}

SpeedModelHits ==
    {SpeedModel(v, c) : v \in {None, "25"}, c \in {NoModel, Compound(<<>>, <<"1">>, <<>>)}}

\* a hit whose compound field was given a string
MalformedHits == {SpeedModel("25", NotAModel)}

Hits == CompoundHits \cup SpeedModelHits \cup MalformedHits

\* no Sentence property is accessed
NoSentence == NewSentence(<<>>, <<>>, <<>>, FALSE)

InitRecords == NoSentence /\ StartRecords /\ NoObjects /\ NoModels /\ NoCems /\ NoAbbrev /\ NoOffsets /\ NoClasses

NextRecords ==
    \/ \E r \in Hits : ProcessHit(r)
    \/ MergeRecords

SpecRecords == InitRecords /\ [][NextRecords]_vars

(***************************************************************************)
(* SpecDefaults: instances of Outer constructed, mutated through their     *)
(* fields and reset by deleting attributes, in any order.                  *)
(***************************************************************************)
Mutations == {"items.append", "inner.items =", "inner.items.append"}

InitDefaults == NoSentence /\ NoRecords /\ ClassesDefined /\ NoModels /\ NoCems /\ NoAbbrev /\ NoOffsets /\ NoClasses

NextDefaults ==
    \/ \E raw_items \in {<<>>, <<Str("n")>>} : Construct(raw_items)
    \/ \E k \in DOMAIN instances, name \in FieldsOf("Outer") : DelAttr(k, name)
    \/ \E k \in DOMAIN instances, how \in Mutations : Mutate(k, how)

SpecDefaults == InitDefaults /\ [][NextDefaults]_vars

(***************************************************************************)
(* SpecModels: a Leaf or a Tree constructed from keyword arguments, then   *)
(* serialized, reconstructed from its serialization, or asked whether it   *)
(* is contextual.                                                          *)
(***************************************************************************)
\* keyword arguments for a Leaf, a name given as an integer among them
RawLeaves == [name : {Absent, NoneV, Str(""), Str("a"), IntV(5)}, kind : {Absent, Str("k")}]
Leaves == {NewModel("Leaf", raw_data) : raw_data \in RawLeaves}

\* a list value given to a list field: Absent, None or a list of at most MaxItems
RawLists(items) == {Absent, NoneV} \cup {ListV(seq) : seq \in SeqsUpTo(items, MaxItems)}

RawTrees ==
    [label : {Absent, Str("l")},
     tags : RawLists({Str(""), Str("t")}),
     leaf : {Absent} \cup Leaves,
     leaves : RawLists(Leaves)]

InitModels ==
    /\ NoSentence /\ NoRecords /\ NoObjects /\ NoCems /\ NoAbbrev /\ NoOffsets /\ NoClasses
    /\ \/ \E raw_data \in RawLeaves : ModelConstructed("Leaf", raw_data)
       \/ \E raw_data \in RawTrees : ModelConstructed("Tree", raw_data)

NextModels ==
    \/ CallSerialize
    \/ Reconstruct
    \/ GetIsContextual

SpecModels == InitModels /\ [][NextModels]_vars

(***************************************************************************)
(* SpecCems: one hit of chemical_name that covers the whole text of a      *)
(* sentence, refined; then a hit that covers one of the Spans emitted, or  *)
(* the last character of the sentence.                                     *)
(***************************************************************************)
Characters == {"(", ")", "[", "]", "-", "a", "b", "A"}

Texts == SeqsUpTo(Characters, MaxText) \ {<<>>}

\* IGNORE_PREFIX, IGNORE_SUFFIX, SPLITS and SPECIALS
Lexicons ==
    {[prefixes |-> <<>>, suffixes |-> <<>>, splits |-> <<>>, specials |-> <<>>],
     [prefixes |-> <<<<"b", "-">>>>, suffixes |-> <<<<"-", "b">>>>,
      splits |-> <<<<"lower">>>>, specials |-> <<>>],
     [prefixes |-> <<<<"b">>, <<"b", "-">>>>, suffixes |-> <<<<"b">>, <<"-", "b">>>>,
      splits |-> <<<<"upper">>, <<"lower">>>>,
      specials |-> <<<<<<"upper">>, <<"lower">>>>, <<<<"upper", "lower">>>>>>]}

InitCems ==
    /\ NoSentence /\ NoRecords /\ NoObjects /\ NoModels /\ NoAbbrev /\ NoOffsets /\ NoClasses
    /\ \E text \in Texts, start \in {0, 2}, lexicon \in Lexicons :
           Scanned([text |-> text, start |-> start, prefixes |-> lexicon.prefixes,
                    suffixes |-> lexicon.suffixes, splits |-> lexicon.splits,
                    specials |-> lexicon.specials])

NextCems ==
    \/ RefineHit
    \/ cems_pc = "refined" /\ \E k \in DOMAIN cems_out.spans : RefineAgain(k)
    \/ RefineLast

SpecCems == InitCems /\ [][NextCems]_vars


\* Two definitions of one short form under different tags, in either order
OrderTags == {None, "C", "D"}

DefinitionPairs(toks) ==
    {<<[abbr |-> sh, long |-> <<"long">>, ner_tag |-> t1],
       [abbr |-> sh, long |-> <<"other">>, ner_tag |-> t2]>> :
        sh \in {x \in ShortForms(toks) : Len(x) <= MaxShort},
        t1 \in OrderTags, t2 \in OrderTags}

InitTagOrder ==
    \E n \in 0..MaxLen :
        \E toks \in [1..n -> TokenTexts], raw \in RawTaggings(n) :
            \E defs \in {d \in DefinitionPairs(toks) : d[1].ner_tag # d[2].ner_tag} :
                NewSentence(toks, raw, defs, TRUE) /\ NoRecords /\ NoObjects /\ NoModels /\ NoCems /\ NoAbbrev /\ NoOffsets /\ NoClasses

SpecTagOrder == InitTagOrder /\ [][NextTags]_vars

\* The sentences whose definitions are detected: raw tags of two types, B- and
\* I-, or none, and what the detector may give as spans
EntityTags == {None, "B-C", "I-C", "B-D"}

SpanPairs(n) ==
    {<<<<n, n>>, <<lo, hi>>>> : lo \in 0..n, hi \in 0..n}
        \cup {<<<<lo, hi>>, <<0, lo>>>> : lo \in 0..n, hi \in 0..n}

\* what detect_spans yields: nothing, one pair, or the whole sentence as a
\* long form and then an empty long form
DetectedSpans(n) ==
    {<<>>} \cup {<<pair>> : pair \in SpanPairs(n)}
        \cup {<< <<<<n, n>>, <<0, n>>>>, <<<<n, n>>, <<0, 0>>>> >>}

InitAbbrev ==
    /\ \E n \in 0..MaxLen :
        \E ners \in [1..n -> EntityTags], detector \in BOOLEAN :
            \E spans \in DetectedSpans(n) :
                detect_in = [raw_tokens |-> [k \in 1..n |-> "a"], ners |-> ners,
                             abbreviation_detector |-> detector, detect_spans |-> spans]
    /\ abbreviations = NoneV
    /\ detect_pc = "detect"
    /\ NoSentence /\ NoRecords /\ NoObjects /\ NoModels /\ NoCems /\ NoOffsets /\ NoClasses

NextAbbrev == DetectAbbreviations

SpecAbbrev == InitAbbrev /\ [][NextAbbrev]_vars

(***************************************************************************)
(* SpecOffsets: Sentences constructed by hand, by Text.sentences and by    *)
(* adding two of them.                                                     *)
(***************************************************************************)
\* a passage of n characters
Passage(n) == [k \in 1..n |-> "a"]

\* what the sentence tokenizer may give a passage of n characters: spans in
\* order that do not overlap
SentenceSpans(n) ==
    {<<>>} \cup {<<<<lo, hi>>>> : lo \in 0..n, hi \in 0..n}
        \cup {<< <<0, mid>>, <<mid + 1, n>> >> : mid \in 0..(n - 1)}

\* where a Sentence made by hand may start
Starts == {0, 2}

InitOffsets ==
    /\ sents = <<>>
    /\ sent_op = "none"
    /\ NoSentence /\ NoRecords /\ NoObjects /\ NoModels /\ NoCems /\ NoAbbrev /\ NoClasses

NextOffsets ==
    \/ \E n \in 0..MaxText, start \in Starts :
          \E end \in {NoneV, IntV(start + n)} : SentenceInit(Passage(n), start, end)
    \/ \E n \in 0..MaxText :
          \E spans \in {s \in SentenceSpans(n) : \A k \in DOMAIN s : s[k][1] <= s[k][2]} :
              TextSentences(Passage(n), spans)
    \/ \E i \in DOMAIN sents, j \in DOMAIN sents : SentenceAdd(i, j)

SpecOffsets == InitOffsets /\ [][NextOffsets]_vars

(***************************************************************************)
(* SpecClasses: subclasses of BaseModel defined one after the other, each  *)
(* on any class defined before it.                                         *)
(***************************************************************************)
FieldNames == {"specifier", "compound"}

\* the bodies a class statement may have: any of the fields, and no parsers
\* list, an empty one, or one with a new parser object
ClassBodies ==
    {[fields |-> f, declares_parsers |-> d, parsers |-> ps] :
        f \in SUBSET FieldNames, d \in BOOLEAN,
        ps \in {<<>>, <<Cardinality(DOMAIN parser_model) + 1>>}}

InitClasses ==
    /\ BaseModelDefined
    /\ NoSentence /\ NoRecords /\ NoObjects /\ NoModels /\ NoCems /\ NoAbbrev /\ NoOffsets

NextClasses ==
    \E base \in DOMAIN classes :
        \E attrs \in {b \in ClassBodies : ~b.declares_parsers => b.parsers = <<>>} :
            DefineClass(base, attrs)

SpecClasses == InitClasses /\ [][NextClasses]_vars

(***************************************************************************)
(* Tag correction: the claims.                                             *)
(***************************************************************************)
\* ner_tags has been computed
NerTagsDone == cache["ner_tags"] # NotComputed

\* the list ner_tags returned, as it is now
CorrectedTags == heap[cache["ner_tags"]]

\* definition def matches at index i (0-based) of the sentence
MatchesAt(def, i) == AbbrMatchesAt(sentence_tokens, i, def.abbr)

DefsInForce == {abbrev_in[k] : k \in DOMAIN abbrev_in}

Indices == 0..(Len(sentence_tokens) - 1)

\* the tag "B-tag" or "I-tag", absent when the tag is absent
Tagged(prefix, tag) == IF tag = None THEN None ELSE prefix \o "-" \o tag

\* the tags the claim expects over the span of def matched at i
SpanTagged(def, i) ==
    /\ CorrectedTags[i + 1] = Tagged("B", def.ner_tag)
    /\ \A k \in (i + 1)..(i + Len(def.abbr) - 1) :
          CorrectedTags[k + 1] = Tagged("I", def.ner_tag)

\* C1: the corrected tag sequence ner_tags returns has as many entries as the
\* raw tag sequence the tagger gave, whatever the definitions and wherever
\* they match.
C1_LengthPreserved ==
    NerTagsDone => Len(CorrectedTags) = Len(ner_tagger_out)

\* C1 witness: ner_tags ran with a two-token short form matching at the last
\* two tokens of the sentence.
C1_Witness ==
    /\ NerTagsDone
    /\ \E def \in DefsInForce :
          /\ Len(def.abbr) = 2
          /\ Len(sentence_tokens) >= 3
          /\ MatchesAt(def, Len(sentence_tokens) - 2)

HasBracket(abbr) == \E k \in DOMAIN abbr : abbr[k] \in {"(", ")"}

OverlappedAt(def, i) ==
    \E j \in (i + 1)..(i + Len(def.abbr) - 1) : j \in Indices /\ MatchesAt(def, j)

C3_ClosingBracketCleared ==
    (/\ NerTagsDone
     /\ Len(abbrev_in) = 1
     /\ abbrev_in[1].abbr # <<>>
     /\ ~HasBracket(abbrev_in[1].abbr)) =>
        \A def \in DefsInForce : \A i \in Indices :
            (/\ MatchesAt(def, i)
             /\ i + Len(def.abbr) \in Indices
             /\ PyItem(sentence_tokens, i + Len(def.abbr)) = ")") =>
                CorrectedTags[i + Len(def.abbr) + 1] = None

\* C4 as stated: when a definition matches at i >= 1 and the token before is
\* "(", that token's corrected tag is absent, also when it is the first token.
\* (Stated for a single definition with a short form that is not empty and
\* holds no bracket token, so that nothing else writes to the bracket's tag.)
C4_OpeningBracketCleared ==
    (/\ NerTagsDone
     /\ Len(abbrev_in) = 1
     /\ abbrev_in[1].abbr # <<>>
     /\ ~HasBracket(abbrev_in[1].abbr)) =>
        \A def \in DefsInForce : \A i \in Indices :
            (/\ MatchesAt(def, i)
             /\ i >= 1
             /\ PyItem(sentence_tokens, i - 1) = "(") =>
                CorrectedTags[i] = None

\* C5 as stated: definitions whose short form is empty never match, so with
\* only such definitions the corrected tags are the raw tags.
C5_EmptyShortNeverMatches ==
    (NerTagsDone /\ \A def \in DefsInForce : def.abbr = <<>>) =>
        CorrectedTags = ner_tagger_out

\* C6 as stated: whatever has been accessed, the cached raw tag sequence is
\* the tagger's output, with no correction applied.  (Stated for definitions
\* with short forms that are not empty.)
C6_RawTagsUntouched ==
    (/\ cache["unprocessed_ner_tags"] # NotComputed
     /\ \A def \in DefsInForce : def.abbr # <<>>) =>
        heap[cache["unprocessed_ner_tags"]] = ner_tagger_out

(***************************************************************************)
(* The record merger: the claims.                                          *)
(***************************************************************************)
\* C8 as stated: when Sentence.records returns, no two records of the
\* sequence are equal (same class and equal values), whatever the hits were.
\* (Stated here for the sentences whose records are all anchors, which the
\* merge pass leaves as the hit loop accepted them.)
C8_NoTwoRecordsEqual ==
    (pc = "done" /\ \A k \in DOMAIN records : records[k].type = "Compound") =>
        \A a, b \in DOMAIN records :
            a # b => ~(records[a].type = records[b].type /\ records[a] = records[b])

\* the step is one turn of the for loop, on the hit record'
HitTurn == pc = "hits" /\ n_hits' = n_hits + 1

\* hit h and accepted record rec are anchors with a name or a label in common
Overlap(h, rec) ==
    /\ rec.type = "Compound"
    /\ \/ \E x \in PySet(h.names) : x \in PySet(rec.names)
       \/ \E x \in PySet(h.labels) : x \in PySet(rec.labels)

\* after holds the unions of the names, labels and roles of before and hit h
IsUnionOf(after, before, h) ==
    /\ after.type = "Compound"
    /\ PySet(after.names) = PySet(before.names) \cup PySet(h.names)
    /\ PySet(after.labels) = PySet(before.labels) \cup PySet(h.labels)
    /\ PySet(after.roles) = PySet(before.roles) \cup PySet(h.roles)

\* what the dedup union rule asks of a turn of the loop on anchor hit record'
DedupUnionRule ==
    IF \E k \in DOMAIN records : Overlap(record', records[k])
    THEN /\ Len(records') = Len(records)
         /\ \A k \in DOMAIN records :
               Overlap(record', records[k]) => IsUnionOf(records'[k], records[k], record')
    ELSE records' = Append(records, record')

\* the hit has no names and every label of it has been seen
RedundantHit == record'.names = <<>> /\ PySet(record'.labels) \subseteq seen_labels

\* C9 as stated: an anchor hit that shares a name or a label with an accepted
\* anchor record is not appended and that record's names, labels and roles
\* become the unions; an anchor hit that shares nothing is appended.
\* (Stated here for the hits that have a name, a label or a role.)
C9_DedupUnion ==
    [][(HitTurn /\ record'.type = "Compound" /\ record' # Compound(<<>>, <<>>, <<>>))
          => DedupUnionRule]_vars

\* the hit is equal to an accepted record
DuplicateHit == \E k \in DOMAIN records : records[k] = record'

\* C9 amended: an anchor hit that is not discarded as empty, as a duplicate of
\* an accepted record or as redundant (it has a name, or a label not seen
\* before) and shares a name or a label with accepted anchor records is not
\* appended, and each of those records' names, labels and roles become the
\* unions of its own and the hit's; such a hit that shares nothing with any
\* accepted anchor is appended.
C9_DedupUnionUnlessDiscarded ==
    [][(HitTurn /\ record'.type = "Compound" /\ ~DuplicateHit /\ ~RedundantHit)
          => DedupUnionRule]_vars

\* C9 witness: the hit with names {A, B} and label 2 was united into the one
\* accepted record, which now has names {A, B} and labels {1, 2}.
C9_Witness ==
    /\ pc = "hits"
    /\ n_hits = 2
    /\ record = Compound(<<"A", "B">>, <<"2">>, <<>>)
    /\ records = <<Compound(<<"A", "B">>, <<"1", "2">>, <<>>)>>

\* the permutations of 1..n
Perms(n) == {f \in [1..n -> 1..n] : \A a, b \in 1..n : a # b => f[a] # f[b]}

\* the sequence rs in the order f
Permuted(rs, f) == [k \in 1..Len(rs) |-> rs[f[k]]]

\* C10 as stated: had the accepted records been in any other order, the merge
\* pass would have left each of them with the same field values.
C10_MergeOrderIndependent ==
    pc = "done" =>
        \A f \in Perms(Len(accepted)) :
            MergePass(Permuted(accepted, f)) = Permuted(records, f)

\* the ordered pairs (i, j), i # j, of indices of a sequence of n records
OrderedPairs(n) == {<<i, j>> : i \in 0..(n - 1), j \in 0..(n - 1)} \ {<<i, i>> : i \in 0..(n - 1)}

\* record after is record before with empty fields filled and nothing else changed
Enriches(after, before) ==
    /\ after.type = before.type
    /\ \A f \in DOMAIN before :
          \/ after[f] = before[f]
          \/ f = "compound" /\ before[f] = NoModel

\* C11: when Sentence.records returns, merge_all has been called exactly once
\* for every ordered pair (i, j), i # j, of the accepted sequence and never
\* otherwise, n*(n-1) times in all, and the records are as many as were
\* accepted, in the same order, each the accepted record enriched.
C11_MergePassKeepsRecords ==
    pc = "done" =>
        /\ Len(merge_calls) = Len(accepted) * (Len(accepted) - 1)
        /\ \A pair \in OrderedPairs(Len(accepted)) :
              Cardinality({k \in DOMAIN merge_calls : merge_calls[k] = pair}) = 1
        /\ \A k \in DOMAIN merge_calls : merge_calls[k] \in OrderedPairs(Len(accepted))
        /\ Len(records) = Len(accepted)
        /\ \A k \in DOMAIN accepted : Enriches(records[k], accepted[k])

\* C11 witness: the merge pass ran over three accepted records and filled the
\* compound of one of them.
C11_Witness ==
    /\ pc = "done"
    /\ Len(accepted) = 3
    /\ Len(merge_calls) = 6
    /\ \E k \in DOMAIN accepted : records[k] # accepted[k]

\* the hit's serialization fails
MalformedHit == record'.type = "SpeedModel" /\ record'.compound.type = "str"

\* C12 as stated: a turn of the loop on a hit whose serialization fails skips
\* the hit: no error ends Sentence.records, the accepted records and the seen
\* labels stay as they were, and the loop goes on to the remaining hits.
C12_MalformedHitSkipped ==
    [][(HitTurn /\ MalformedHit) =>
          /\ pc' = "hits"
          /\ records' = records
          /\ seen_labels' = seen_labels]_vars

(***************************************************************************)
(* Field defaults: the claim.                                              *)
(***************************************************************************)
\* the value v in heap h with every reference followed
RECURSIVE DeepOf(_, _)
DeepOf(h, v) ==
    IF ~IsRef(v) THEN v
    ELSE LET o == h[v.ref]
         IN  CASE o.kind = "list" -> [list |-> [k \in DOMAIN o.items |-> DeepOf(h, o.items[k])]]
               [] o.kind = "dict" -> [dict |-> [f \in DOMAIN o.items |-> DeepOf(h, o.items[f])]]
               [] o.kind = "model" -> [cls |-> o.cls, values |-> DeepOf(h, o.values)]

\* the class-level defaults of the fields
ClassDefaults == {Ref(1), Ref(2), Ref(5)}

\* the instances whose value the step changed, at any depth
Changed == {k \in DOMAIN instances : DeepOf(objs', instances[k]) # DeepOf(objs, instances[k])}

\* C13 as stated: mutating the value of a field of one instance, at any depth,
\* changes no other instance and no class-level default of a field.
C13_DefaultsNotShared ==
    [][(last_op' = "mutate" /\ n_ops' = n_ops + 1) =>
          /\ Cardinality(Changed) <= 1
          /\ \A d \in ClassDefaults : DeepOf(objs', d) = DeepOf(objs, d)]_vars

(***************************************************************************)
(* Models: the claims.                                                     *)
(***************************************************************************)
\* a value that is not None, '' or [], nor a Model without a non-empty field
RECURSIVE NonEmptyValue(_)
NonEmptyValue(v) ==
    /\ v \notin {NoneV, Str(""), ListV(<<>>)}
    /\ IsModel(v) => \E k \in DOMAIN v.values : NonEmptyValue(v.values[k])

\* the dict d has an entry for exactly the fields of m that are non-empty or
\* null=true, and so have the dicts in it of the nested Models of m
RECURSIVE InclusionRule(_, _)
InclusionRule(m, d) ==
    \A k \in DOMAIN m.values :
        LET field == fields(m.cls)[k]
            v == m.values[k]
        IN  /\ k \in DOMAIN d.dict <=> (NonEmptyValue(v) \/ field.null)
            /\ (k \in DOMAIN d.dict /\ IsModel(v)) => InclusionRule(v, d.dict[k])
            /\ (k \in DOMAIN d.dict /\ field.type = "ListType" /\ v # NoneV) =>
                   \A i \in DOMAIN v.list :
                       IsModel(v.list[i]) => InclusionRule(v.list[i], d.dict[k].list[i])

\* C14 as stated: serialize() has an entry for a field iff the field's value is
\* non-empty (not None, '' or [], and not a nested Model with no non-empty
\* field) or the Field declares null=true, in nested Models and lists of
\* Models too.
C14_SerializeInclusion == op = "serialize" => InclusionRule(model, out)

\* C15 as stated: the Model constructed from the entries of serialize(m),
\* through the field setters, is equal to m.
C15_RoundTrip == op = "reconstruct" => ModelEquals(model, out)

\* every non-empty field of m is contextual: a nested Model when it is
\* contextual itself, a list when each element is (a Model as before, a scalar
\* by the contextual flag of the element Field), a scalar by its Field's flag
RECURSIVE EveryNonEmptyFieldContextual(_)
EveryNonEmptyFieldContextual(m) ==
    \A k \in DOMAIN m.values :
        LET field == fields(m.cls)[k]
            v == m.values[k]
        IN  v \notin {NoneV, Str(""), ListV(<<>>)} =>
                CASE field.type = "ModelType" -> EveryNonEmptyFieldContextual(v)
                  [] field.type = "ListType" ->
                       \A i \in DOMAIN v.list :
                           IF field.field.type = "ModelType"
                           THEN EveryNonEmptyFieldContextual(v.list[i])
                           ELSE field.field.contextual
                  [] OTHER -> field.contextual

\* C16: is_contextual holds for a Model iff every field whose value is not
\* None, '' or [] is contextual (a nested Model iff it is_contextual, a list
\* iff every element is, scalar elements by the element Field's flag); a Model
\* with no non-empty field is contextual.
C16_IsContextual ==
    op = "is_contextual" => (out <=> EveryNonEmptyFieldContextual(model))

\* a Tree with a list of strings and a list of Models was found contextual
C16_Witness ==
    /\ op = "is_contextual"
    /\ model.cls = "Tree"
    /\ model.values.tags \notin {NoneV, ListV(<<>>)}
    /\ model.values.leaves \notin {NoneV, ListV(<<>>)}
    /\ out = TRUE

(***************************************************************************)
(* Sentence.cems: the claims.                                              *)
(***************************************************************************)
\* the text of the sentence between two offsets
SentenceText(start, end) == PySlice(cems_in.text, start - cems_in.start, end - cems_in.start)

\* C17 as stated: the refiner run on the text range of a Span it has emitted
\* yields exactly that Span again.
C17_TrimIdempotent ==
    cems_pc = "again" =>
        cems_again.spans = <<Span(SentenceText(cems_again.hit.start, cems_again.hit.end),
                                  cems_again.hit.start, cems_again.hit.end)>>

\* the split rules that match every component of a text
MatchingEvery(text) ==
    {k \in DOMAIN cems_in.splits :
        \A c \in DOMAIN regex_span_tokenize(text, 0, 0) :
            re_search(cems_in.splits[k],
                      PySlice(text, regex_span_tokenize(text, 0, 0)[c][1],
                              regex_span_tokenize(text, 0, 0)[c][2]))}

ZeroFirstAtEnd(text, bpair) ==
    /\ Len(text) >= 3
    /\ text[1] = bpair[1]
    /\ text[Len(text)] = bpair[2]
    /\ LevelAfter(text, bpair, Len(text) - 1) = 0
    /\ \A k \in 1..(Len(text) - 2) : LevelAfter(text, bpair, k) # 0

\* C20 as stated: debracket strips one character from each end exactly when
\* the text has at least 3 characters, starts and ends with one bracket pair
\* and the depth counter is 0 for the first time at the final character; a
\* text whose depth is 0 before it stays as it is.
C20_DebracketEnclosing ==
    cems_pc = "refined" =>
        LET t == cems_out.trimmed
            strips == \E bpair \in {<<"(", ")">>, <<"[", "]">>} :
                          ZeroFirstAtEnd(SentenceText(t.start, t.end), bpair)
        IN  cems_out.debracketed =
                IF strips THEN [start |-> t.start + 1, end |-> t.end - 1] ELSE t

\* the length of the first entry of a list that a text starts with (at_start)
\* or ends with, or 0
RECURSIVE FirstLength(_, _, _)
FirstLength(entries, text, at_start) ==
    IF entries = <<>> THEN 0
    ELSE IF (at_start /\ startswith(text, Head(entries)))
            \/ (~at_start /\ endswith(text, Head(entries)))
         THEN Len(Head(entries))
         ELSE FirstLength(Tail(entries), text, at_start)

\* C21: trim advances start by the length of the first entry of the prefix
\* list that the lower-cased covered text starts with (if any) and retracts
\* end by the length of the first entry of the suffix list that the same
\* lower-cased text ends with (if any): one prefix and one suffix at most, the
\* suffix whether or not a prefix was removed.
C21_TrimFirstEntries ==
    cems_pc = "refined" =>
        LET hit == cems_out.hit
            lowered == [k \in 1..(hit.end - hit.start) |->
                           IF SentenceText(hit.start, hit.end)[k] = "A"
                           THEN "a" ELSE SentenceText(hit.start, hit.end)[k]]
        IN  /\ cems_out.trimmed.start = hit.start + FirstLength(cems_in.prefixes, lowered, TRUE)
            /\ cems_out.trimmed.end = hit.end - FirstLength(cems_in.suffixes, lowered, FALSE)

\* a text that every entry of the two lists matches lost the first prefix
\* and the first suffix, and no more
C21_Witness ==
    /\ cems_pc = "refined"
    /\ Len(cems_in.prefixes) > 1
    /\ \A k \in DOMAIN cems_in.prefixes :
           startswith(SentenceText(cems_out.hit.start, cems_out.hit.end), cems_in.prefixes[k])
    /\ \A k \in DOMAIN cems_in.suffixes :
           endswith(SentenceText(cems_out.hit.start, cems_out.hit.end), cems_in.suffixes[k])
    /\ cems_out.trimmed.start = cems_out.hit.start + 1
    /\ cems_out.trimmed.end = cems_out.hit.end - 1

\* what the loop computed for the hits handled so far
Handled ==
    IF cems_pc = "refined" THEN {cems_out}
    ELSE IF cems_pc \in {"again", "next"} THEN {cems_out, cems_again} ELSE {}

\* the Spans emitted so far
Emitted ==
    IF cems_pc = "refined" THEN cems_out.spans
    ELSE IF cems_pc \in {"again", "next"} THEN cems_out.spans \o cems_again.spans ELSE <<>>

\* the Spans emitted are still there, in their places, after a step
EmittedStay == SubSeq(Emitted', 1, Len(Emitted)) = Emitted

\* C22: a hit whose character span after trim and debracket has start >= end
\* gives no Span and no error: the loop goes on to the next hit, and the Spans
\* emitted before it stay as they are.
C22_EmptyGuard ==
    /\ [](\A r \in Handled : r.debracketed.start >= r.debracketed.end => r.spans = <<>>)
    /\ [][EmittedStay]_vars

\* a hit was dropped for an overlapping prefix and suffix, and the next hit
\* gave a Span
C22_Witness ==
    /\ cems_pc = "next"
    /\ cems_out.trimmed.start > cems_out.trimmed.end
    /\ cems_out.spans = <<>>
    /\ cems_again.spans # <<>>

\* the special patterns that match the text of a candidate
MatchingSpecials(candidate) ==
    {k \in DOMAIN cems_in.specials : re_search(Flat(cems_in.specials[k]), candidate.text)}

\* the Spans that replace a candidate: one per group of the first special
\* pattern that matches its text, or the candidate itself
ReplacedBy(candidate) ==
    IF MatchingSpecials(candidate) = {} THEN <<candidate>>
    ELSE LET first == CHOOSE k \in MatchingSpecials(candidate) :
                          \A j \in MatchingSpecials(candidate) : k <= j
             groups == GroupsFrom(cems_in.specials[first], 1, 0)
         IN  [i \in DOMAIN groups |->
                 [text |-> SubSeq(candidate.text, groups[i][1] + 1, groups[i][2]),
                  start |-> candidate.start + groups[i][1],
                  end |-> candidate.start + groups[i][2]]]

\* C23: each candidate Span of the split step is replaced by one Span per
\* group of the first special pattern that matches its text, with offsets
\* candidate.start plus the offsets of the group in the match, or emitted as it
\* is when none matches; the candidates are handled in split order.
C23_FirstSpecial ==
    cems_pc = "refined" =>
        cems_out.spans = Flat([c \in DOMAIN cems_out.split_spans |->
                                  ReplacedBy(cems_out.split_spans[c])])

\* a candidate that two special patterns match was replaced by the two groups
\* of the first
C23_Witness ==
    /\ cems_pc = "refined"
    /\ Len(cems_out.split_spans) = 1
    /\ Cardinality(MatchingSpecials(cems_out.split_spans[1])) = 2
    /\ Len(cems_out.spans) = 2


\* two definitions of one short form under different tags are in force
SameShortTwice ==
    /\ Len(abbrev_in) = 2
    /\ abbrev_in[1].abbr = abbrev_in[2].abbr
    /\ abbrev_in[1].ner_tag # abbrev_in[2].ner_tag

LongTags(k) ==
    PySlice(detect_in.ners, detect_in.detect_spans[k][2][1], detect_in.detect_spans[k][2][2])

\* every token of a non-empty long form has a raw tag B-type or I-type
AllOfType(long_tags, type) ==
    /\ long_tags # <<>>
    /\ \A j \in DOMAIN long_tags : long_tags[j] \in {"B-" \o type, "I-" \o type}

\* C25: the entity tag of a definition is the type T exactly when every token
\* of its long form has a raw tag (B- or I-) of the type T; when a token of the
\* long form has no tag, the types are mixed or the long form is empty, the
\* entity tag is absent, and the definitions are returned without an error.
C25_EntityTagOfLongForm ==
    /\ detect_pc # "raised"
    /\ (detect_pc = "detected" /\ detect_in.abbreviation_detector) =>
            /\ Len(abbreviations) = Len(detect_in.detect_spans)
            /\ \A k \in DOMAIN abbreviations :
                /\ \A type \in EntityTypes :
                      abbreviations[k].ner_tag = type <=> AllOfType(LongTags(k), type)
                /\ (~\E type \in EntityTypes : AllOfType(LongTags(k), type)) =>
                      abbreviations[k].ner_tag = None

\* a long form of two tokens tagged B-C, I-C gave the tag C
C25_Witness ==
    /\ detect_pc = "detected"
    /\ Len(abbreviations) = 1
    /\ LongTags(1) = <<"B-C", "I-C">>
    /\ abbreviations[1].ner_tag = "C"

\* the hit has no field that is not empty, so that its serialization holds
\* no value
EmptyHit == record' \in {SpeedModel(None, NoModel), Compound(<<>>, <<>>, <<>>)}

\* the turn left the accepted records and the seen labels as they were
HitDiscarded == records' = records /\ seen_labels' = seen_labels

EmptyOrDuplicateDiscarded == (HitTurn /\ (EmptyHit \/ DuplicateHit)) => HitDiscarded

\* C26: a hit whose serialization is empty, or that is equal (same Model type,
\* equal values) to a record already accepted, is not appended, and the turn
\* of the loop changes neither the accepted records nor the seen labels.
C26_EmptyOrDuplicateDiscarded == [][EmptyOrDuplicateDiscarded]_vars

\* two records with a value were accepted and the third hit, equal to the
\* first of them, left them as they are
C26_Witness ==
    /\ pc = "hits"
    /\ n_hits = 3
    /\ records = <<SpeedModel("25", NoModel), SpeedModel("25", Compound(<<>>, <<"1">>, <<>>))>>
    /\ record = SpeedModel("25", NoModel)

\* the hit is an anchor with at least one label, all of them seen
LabelsAllSeen ==
    /\ record'.type = "Compound"
    /\ record'.labels # <<>>
    /\ PySet(record'.labels) \subseteq seen_labels

SeenAnchorDiscarded == (HitTurn /\ LabelsAllSeen) => HitDiscarded

\* C27 as stated: an anchor hit that has only names, labels and roles and
\* whose labels have all been seen is discarded, records and seen labels
\* staying as they are.  (Stated here for the hits with at least one label.)
C27_RedundantAnchorDiscarded == [][SeenAnchorDiscarded]_vars

\* what the rule asks of a turn on an anchor hit: without a name and with
\* every label seen it is discarded; with a label not seen it is not
RedundantAnchorRule ==
    (HitTurn /\ record'.type = "Compound") =>
        /\ RedundantHit => HitDiscarded
        /\ ~(PySet(record'.labels) \subseteq seen_labels) =>
              /\ records' # records
              /\ PySet(record'.labels) \subseteq seen_labels'

\* C27 amended: an anchor hit that has no names (only labels and roles, or
\* nothing) and whose labels have all been seen is discarded, records and seen
\* labels staying as they are; an anchor hit with a label not seen before is
\* never discarded: it changes the records and its labels are seen afterwards.
C27_LabelOnlyAnchorDiscarded == [][RedundantAnchorRule]_vars

\* a label-only anchor hit came after a record whose compound has its label,
\* and was discarded
C27_Witness ==
    /\ pc = "hits"
    /\ n_hits = 2
    /\ record = Compound(<<>>, <<"1">>, <<"r">>)
    /\ records = <<SpeedModel("25", Compound(<<>>, <<"1">>, <<>>))>>
    /\ seen_labels = {"1"}

\* the hit is no anchor and carries a Compound
CarriesCompound == record'.type = "SpeedModel" /\ record'.compound.type = "Compound"

\* such a hit has its compound's labels seen after the turn, and is appended
\* as a record of its own unless it is a duplicate (it is never empty)
NonAnchorRule ==
    (HitTurn /\ CarriesCompound) =>
        /\ seen_labels' = seen_labels \cup PySet(record'.compound.labels)
        /\ records' = IF DuplicateHit THEN records ELSE Append(records, record')

SeenGrows == seen_labels \subseteq seen_labels'

\* a label-only anchor hit whose labels an accepted non-anchor record's
\* compound has is discarded
LabelsOfCompoundDiscarded ==
    (/\ HitTurn
     /\ record'.type = "Compound"
     /\ record'.names = <<>>
     /\ \E k \in DOMAIN records :
           /\ records[k].type = "SpeedModel"
           /\ records[k].compound.type = "Compound"
           /\ PySet(record'.labels) \subseteq PySet(records[k].compound.labels))
        => HitDiscarded

\* C28: a non-anchor hit that carries a compound adds the compound's labels to
\* the seen labels and is appended as it is unless it is empty or an exact
\* duplicate; the seen labels only grow, so that a later label-only anchor hit
\* whose labels are among them is discarded.
C28_NonAnchorRegistersLabels ==
    /\ [][NonAnchorRule]_vars
    /\ [][SeenGrows]_vars
    /\ [][LabelsOfCompoundDiscarded]_vars

\* a record without a value was accepted for its compound, and the label-only
\* anchor hit that followed was discarded for the compound's label
C28_Witness ==
    /\ pc = "hits"
    /\ n_hits = 2
    /\ record = Compound(<<>>, <<"1">>, <<>>)
    /\ records = <<SpeedModel(None, Compound(<<>>, <<"1">>, <<>>))>>
    /\ seen_labels = {"1"}

\* C29 as stated: for every Sentence, end - start is the length of its text,
\* one constructed with a start other than 0 and no end, and the sum of two
\* Sentences, included.
C29_OffsetsConsistent ==
    \A k \in DOMAIN sents : sents[k].end - sents[k].start = Len(sents[k].text)

\* the fields a class should have: those of its base, then its own
RECURSIVE DeclaredFields(_)
DeclaredFields(c) ==
    IF c = BaseModel THEN <<>>
    ELSE LET inherited == DeclaredFields(classes[c].base)
         IN  [k \in DOMAIN inherited \cup classes[c].own_fields |->
                 IF k \in classes[c].own_fields THEN c ELSE inherited[k]]

\* C30 as stated: the field set of every class is that of its parent plus its
\* own, the parent's staying as it was, and the model of every parser object
\* is the class whose own parsers declaration contains it, also after a
\* subclass that inherits parsers has been defined.
C30_RegistriesSeparate ==
    /\ \A c \in DOMAIN classes : classes[c].fields = DeclaredFields(c)
    /\ \A p \in DOMAIN parser_model :
          /\ classes[parser_model[p]].declares_parsers
          /\ \E k \in DOMAIN classes[parser_model[p]].parsers :
                classes[parser_model[p]].parsers[k] = p

(***************************************************************************)
(* The caches: the claim.                                                  *)
(***************************************************************************)
\* the derived sequences C7 names
ClaimedProperties ==
    {"tokens", "pos_tagged_tokens", "unprocessed_ner_tags", "abbreviation_definitions",
     "ner_tags", "tags", "cems", "definitions", "records"}

AllInvokedAtMostOnce == \A who \in Collaborators : calls[who] <= 1

\* what an access found kept is what every later access returns
KeptStays ==
    \A name \in ClaimedProperties \cap DOMAIN cache :
        cache[name] # NotComputed => cache'[name] = cache[name]

====
